---- MODULE Spec2Model ----
(***************************************************************************)
(* Model of the examide guest-execution host runtime:                      *)
(*   - the compile -> link -> run pipeline of API.compileLinkRun and the   *)
(*     App.run guest life cycle                          (specification    *)
(*     Spec);                                                              *)
(*   - the stdin mailbox shared by the worker (MemFS.host_read) and the    *)
(*     controlling thread (WorkerAPI.onmessage)          (SpecStdin);      *)
(*   - the scatter/gather shims MemFS.host_read / MemFS.host_write over a  *)
(*     guest's linear memory                             (SpecShim);       *)
(*   - the archive loader Tar.untar into MemFS           (SpecTar);        *)
(*   - Memory.writeStr / readStr                         (SpecStr);        *)
(*   - Memory.check and the memory accesses of MemFS and App (SpecView);   *)
(*   - the Python worker: onAnyMessage, initPyodide and the request        *)
(*     handlers                                          (SpecPy);         *)
(*   - WorkerAPI, its channels and the workers it spawns (SpecCtl, and     *)
(*     SpecCtlFair with running event loops);                              *)
(*   - API.formatErrorMsg on traceback messages          (SpecFmt);        *)
(*   - overlapping API.run invocations on one MemFS      (SpecOverlap);    *)
(*   - the loop of Tar.untar on arbitrary buffers        (SpecRead);       *)
(*   - overlapping API.getModule calls                   (SpecCache);      *)
(*   - createWorkerApi and window._workerApi             (SpecApi).        *)
(***************************************************************************)
EXTENDS Integers, Sequences, FiniteSets, TLC

VARIABLES
    \* ---- pipeline (API / App) ----
    pc,           \* position of the one compileLinkRun invocation in flight
    fname,        \* data.filename of that invocation
    trace,        \* per request: hostWrite calls and stage events, in order
    result,       \* settlement of the compileLinkRun promise
    apiReady,     \* API.ready: "pending" | "untar" | "ok" | "failed"
    moduleCache,  \* API.moduleCache: name -> compiled module (<<>>: no entry)
    app,          \* the App of the stage in flight
    hostMem,      \* MemFS.hostMem_: the stage whose Memory the shim uses
    gw,           \* guest host_write calls made by the running instance
    sys,          \* outcome of the last WASI call of the running instance
    nreq,         \* compileLinkRun invocations started so far
    \* ---- stdin mailbox: worker side (MemFS.host_read) ----
    shm,          \* bytes of sharedMem.buffer; bytes 0..3 are the word waited on
    wpc,          \* where the worker thread is inside the guest / host_read
    di,           \* index i of host_read's drain loop
    dstr,         \* str of host_read's drain loop
    riovs,        \* iovecs of the host_read call in progress
    stdinStr,     \* MemFS.stdinStr
    stdinStrPos,  \* MemFS.stdinStrPos
    \* ---- stdin mailbox: controller side (WorkerAPI.onmessage) ----
    port,         \* readStdin messages posted and not yet dispatched
    cpend,        \* waitForInput() promises not yet resolved
    cwpc,         \* where the .then callback of "readStdin" is
    cval,         \* value the callback is writing
    ci,           \* index i of the callback's loop
    \* ---- stdin mailbox: history ----
    issued,       \* readStdin requests posted by host_read
    notified,     \* Atomics.notify calls made by the controller
    returned,     \* host_read calls that have returned
    vals,         \* the values the controller wrote, in order
    lastRead,     \* what the last returned host_read delivered
    \* ---- shims over guest memory ----
    gmem,         \* bytes of the guest's linear memory
    sfd,          \* fd argument
    siovs,        \* the iovec array the call is given: <<buf, len>> pairs
    sin,          \* stdinStr when host_read starts scattering
    sres,         \* outcome of the shim call
    \* ---- archive loader (Tar.untar into MemFS) ----
    tsrc,         \* the entries the archive was written from, in order
    tu8,          \* Tar.u8: the bytes of the archive
    tfs,          \* MemFS registrations made so far: addFile / addDirectory
    tdone,        \* "idle" | "returned" | "threw": how tar.untar(memfs) ended
    \* ---- Memory.writeStr / readStr ----
    wmem,         \* bytes of the Memory's buffer before the call
    wo,           \* offset argument
    wstr,         \* string argument, as its char codes
    wres,         \* outcome of writeStr; rd: what readStr(o) then returns
    \* ---- Memory views and their backing stores ----
    gen,          \* per memory: how often its backing store has grown
    view,         \* per Memory object: the growth its buffer/u8/u32 were bound at
    vlast,        \* the last operation run and whether it used a stale view
    \* ---- Python worker (part_000) ----
    ypyodide,     \* API.pyodide: "null" until loadPyodide has resolved
    yarchive,     \* custom_stdlib.zip: "none" | "fetching" | "unpacked" | "failed"
    yport,        \* the worker's global `port`
    yout,         \* the messages the worker has posted on a MessagePort, in order
    ylog,         \* every call of one of the worker's options, in order
    yreqs,        \* the requests onAnyMessage has dispatched, in order
    \* ---- WorkerAPI and the workers it has spawned ----
    isReady,      \* WorkerAPI.isReady
    isRunningCode, \* WorkerAPI.isRunningCode
    worker,       \* WorkerAPI.worker / WorkerAPI.port: the number of the live worker
    sharedMem,    \* WorkerAPI.sharedMem: 0 (null) or the number of the Memory
    sharedEnabled, \* what hasSharedMemoryEnabled() returns in this browser
    workers,      \* per worker: proglang, life-cycle state, its `port`, ready posted
    toCtl,        \* per channel: messages queued at port1, for WorkerAPI.onmessage
    toWorker,     \* per channel: messages queued at port2, for the worker
    nruns,        \* runUserCode calls made on the WorkerAPI
    staleDone,    \* a completion event of a terminated worker cleared isRunningCode
    \* ---- API.formatErrorMsg ----
    fmsg,         \* err.message, as its lines; a line is a sequence of tokens
    fres,         \* the lines formatErrorMsg returned (<<>> before the call)
    \* ---- overlapping API.run invocations ----
    oapps,        \* per App: "none" | "constructed" | "ready" | "executing" | "ended" | "failed"
    omicro,       \* the worker's microtask queue
    ohostMem,     \* MemFS.hostMem_: the App whose Memory it is (0: unset)
    \* ---- the loop of Tar.untar, one readEntry at a time ----
    eu8,          \* Tar.u8: the bytes of an arbitrary buffer
    eoff,         \* Tar.offset when the next readEntry starts
    eres,         \* "idle" | "entry" | "null" | "throw": the last readEntry
    efs,          \* MemFS registrations made by the loop so far
    esteps,       \* readEntry calls made so far
    \* ---- overlapping API.getModule calls ----
    gcache,       \* API.moduleCache: per name, NoModule or the module stored
    gcall,        \* per getModule invocation: where it is and the name it was given
    gcompiles,    \* per name: how often compileStreaming(name) was invoked
    \* ---- createWorkerApi and window._workerApi ----
    kapi,         \* window._workerApi: NoApi or the WorkerAPI object
    klast,        \* the proglang of the most recent createWorkerApi call
    kspawned,     \* workers created so far (calls of _createWorker)
    kterminated,  \* calls of WorkerAPI.terminate so far
    kcalls        \* createWorkerApi calls made so far

pvars == <<pc, fname, trace, result, apiReady, moduleCache, app, hostMem, gw, sys, nreq>>
svars == <<shm, wpc, di, dstr, riovs, stdinStr, stdinStrPos, port, cpend, cwpc, cval, ci,
           issued, notified, returned, vals, lastRead>>
mvars == <<gmem, sfd, siovs, sin, sres>>
tvars == <<tsrc, tu8, tfs, tdone>>

\* the parts outside pipeline, mailbox and shims
wvars == <<wmem, wo, wstr, wres>>

vvars == <<gen, view, vlast>>

yvars == <<ypyodide, yarchive, yport, yout, ylog, yreqs>>

cvars == <<isReady, isRunningCode, worker, sharedMem, sharedEnabled, workers, toCtl,
           toWorker, nruns, staleDone>>

fvars == <<fmsg, fres>>

ovars == <<oapps, omicro, ohostMem>>

evars == <<eu8, eoff, eres, efs, esteps>>

gvars == <<gcache, gcall, gcompiles>>

kvars == <<kapi, klast, kspawned, kterminated, kcalls>>

nvars == <<evars, gvars, kvars>>

zvars == <<cvars, fvars, ovars, nvars>>

xvars == <<tvars, wvars, vvars, yvars, zvars>>

vars == <<pvars, svars, mvars, xvars>>

\* ------------------------------------------------------------------ bounds
MaxRequests == 2
MaxGuestWrites == 2
MaxReads == 2        \* host_read calls of one guest
MaxPayload == 2      \* length of a value typed by the user
ShmSize == 4         \* bytes of the shared mailbox region
MaxIovs == 2         \* iovecs of one call
MaxIovLen == 2       \* length of one iovec buffer
MaxEntries == 2      \* entries of one archive
MaxFileSize == 2     \* bytes of one archived file
Block == 4           \* archive block size (512), scaled with the header
StrMemSize == 3      \* bytes of the Memory writeStr is applied to
MaxStrLen == 2       \* length of the string written
MaxGrows == 2        \* growths of one backing store
MaxPyRequests == 2   \* requests posted to the Python worker
MaxWorkers == 2      \* workers one WorkerAPI spawns
MaxRuns == 2         \* runUserCode calls on one WorkerAPI
MaxWrapperLines == 6 \* traceback lines between the first line and the user's frame
MaxFrames == 2       \* frames of user code in a traceback
MaxExecTokens == 2   \* occurrences of <exec> in the exception line
MaxApps == 3         \* App objects constructed by API.run
MaxOverrun == 2      \* iterations of the drain loop past the end of the mailbox
MaxBlocks == 3       \* blocks of an arbitrary buffer handed to Tar
MaxReadEntries == 4  \* readEntry calls of one untar loop
MaxCalls == 3        \* getModule invocations
MaxApiCalls == 7     \* createWorkerApi calls

\* --------------------------------------------------------------- constants
RAF_PROC_EXIT_CODE == 789514     \* 0xC0C0A
ESUCCESS == 0

\* byte values: NUL and two values that differ from it and from each other
Bytes == {0, 1, 2}
Chars == Bytes \ {0}

FileNames == {"hello.c", "x.cpp"}
ExitCodes == {0, 1, RAF_PROC_EXIT_CODE}
Stages == {"compile", "link", "run"}

\* `${code}` of a template literal
CodeStr(code) ==
    CASE code = 0 -> "0"
      [] code = 1 -> "1"
      [] code = RAF_PROC_EXIT_CODE -> "789514"
      [] OTHER -> "?"

\* filename.replace(/\.c/, ''): the first ".c" is removed, wherever it is
StripDotC(fn) ==
    CASE fn = "hello.c" -> "hello"
      [] fn = "x.cpp" -> "xpp"
      [] OTHER -> fn

\* ------------------------------------------------------------- exceptions
ProcExit(code) ==
    [type |-> "ProcExit", code |-> code,
     message |-> <<"process exited with code ", CodeStr(code), ".">>]

NotImplemented(modname, fieldname) ==
    [type |-> "NotImplemented", code |-> -1,
     message |-> <<modname, ".", fieldname, " not implemented.">>]

\* a fault raised by the engine while the guest runs (unreachable, out of
\* bounds access, ...)
RuntimeError ==
    [type |-> "RuntimeError", code |-> -1, message |-> <<"unreachable">>]

NoExn == [type |-> "none", code |-> -1, message |-> <<>>]

\* --------------------------------------------------------- trace entries
\* a hostWrite(text) call
Wr(text) == [k |-> "write", text |-> text, exn |-> NoExn]
\* a stage event: a call, a return, a throw, entry to _start
Ev(st, what) == [k |-> "ev", text |-> <<st, what>>, exn |-> NoExn]

\* API.hostLog
HostLog(message) == Wr(<<"$ ">> \o message)

DoneLine == Wr(<<"done.\n">>)
RunLine(fn) == Wr(<<"$ ./", StripDotC(fn), "\n">>)
NewLine == Wr(<<"\n">>)
\* the text of the k-th write of the running instance
GuestText(k) == [k |-> "write", text |-> <<"guest output">>, exn |-> NoExn, n |-> k]

HostWriteSink_Buffered(tr, text) == tr

\* MemFS.host_write, fd <= 2: this.hostWrite(str) is called before
\* host_write returns, so the sink has the text when the guest resumes
HostWriteSink(tr, text) == Append(tr, text)

\* the message App.run builds in its catch block
Diagnostic(exn, writeStack) ==
    Wr(<<"ESC[91mError: ">> \o exn.message
        \o (IF writeStack THEN <<"\n", "stack of ", exn.type>> ELSE <<>>)
        \o <<"ESC[0m\n">>)

IsDiag(e) == e.k = "write" /\ e.text[1] = "ESC[91mError: "
DiagHasStack(e) == \E i \in 1..Len(e.text) : e.text[i] = "\n"

\* ------------------------------------------------------------------ App
Returned == [threw |-> FALSE, exn |-> NoExn]
Threw(exn) == [threw |-> TRUE, exn |-> exn]

\* App.run with writeStack never cleared for a ProcExit
AppRun_StackAlways(end, allow) ==
    IF ~end.threw
    THEN [ret |-> "undefined", exn |-> NoExn, writes |-> <<>>, allowRAF |-> allow]
    ELSE IF end.exn.type = "ProcExit" /\ end.exn.code = RAF_PROC_EXIT_CODE
    THEN [ret |-> "true", exn |-> NoExn, writes |-> <<>>, allowRAF |-> allow]
    ELSE IF end.exn.type = "ProcExit" /\ end.exn.code = 0
    THEN [ret |-> "false", exn |-> NoExn, writes |-> <<>>, allowRAF |-> FALSE]
    ELSE [ret |-> "throw", exn |-> end.exn,
          writes |-> <<Diagnostic(end.exn, TRUE)>>,
          allowRAF |-> IF end.exn.type = "ProcExit" THEN FALSE ELSE allow]

\* App.run without the early return for the sentinel exit code
AppRun_NoSentinel(end, allow) ==
    IF ~end.threw
    THEN [ret |-> "undefined", exn |-> NoExn, writes |-> <<>>, allowRAF |-> allow]
    ELSE IF end.exn.type = "ProcExit" /\ end.exn.code = 0
    THEN [ret |-> "false", exn |-> NoExn, writes |-> <<>>, allowRAF |-> FALSE]
    ELSE [ret |-> "throw", exn |-> end.exn,
          writes |-> <<Diagnostic(end.exn, end.exn.type # "ProcExit")>>,
          allowRAF |-> IF end.exn.type = "ProcExit" THEN FALSE ELSE allow]

\* App.run without the early return for exit code 0
AppRun_ZeroIsFailure(end, allow) ==
    IF ~end.threw
    THEN [ret |-> "undefined", exn |-> NoExn, writes |-> <<>>, allowRAF |-> allow]
    ELSE IF end.exn.type = "ProcExit" /\ end.exn.code = RAF_PROC_EXIT_CODE
    THEN [ret |-> "true", exn |-> NoExn, writes |-> <<>>, allowRAF |-> allow]
    ELSE [ret |-> "throw", exn |-> end.exn,
          writes |-> <<Diagnostic(end.exn, end.exn.type # "ProcExit")>>,
          allowRAF |-> IF end.exn.type = "ProcExit" THEN FALSE ELSE allow]

\* App.run from the moment _start() returns or throws: what run() returns
\* ("throw": it rethrows exn), what it hands to memfs.hostWrite, and the new
\* value of allowRequestAnimationFrame. `allow` is the value before.
AppRun(end, allow) ==
    IF ~end.threw
    THEN [ret |-> "undefined", exn |-> NoExn, writes |-> <<>>, allowRAF |-> allow]
    ELSE IF end.exn.type = "ProcExit" /\ end.exn.code = RAF_PROC_EXIT_CODE
    THEN [ret |-> "true", exn |-> NoExn, writes |-> <<>>, allowRAF |-> allow]
    ELSE IF end.exn.type = "ProcExit" /\ end.exn.code = 0
    THEN [ret |-> "false", exn |-> NoExn, writes |-> <<>>, allowRAF |-> FALSE]
    ELSE [ret |-> "throw", exn |-> end.exn,
          writes |-> <<Diagnostic(end.exn, end.exn.type # "ProcExit")>>,
          allowRAF |-> IF end.exn.type = "ProcExit" THEN FALSE ELSE allow]

\* API.run after `await app.run()`: stillRunning ? app : null, or the rethrow
APIRun(ret) ==
    IF ret = "throw" THEN "throw" ELSE IF ret = "true" THEN "app" ELSE "null"

\* a clock_time_get that reports success and stores a zero time
ClockTimeGet_Zeroed ==
    [name |-> "clock_time_get", threw |-> FALSE, exn |-> NoExn,
     ret |-> "ESUCCESS", memw |-> {"time_out"}]

\* App.clock_time_get / App.poll_oneoff: what the call gives back to the guest
\* (ret), which guest addresses it writes (memw), what it throws.
ClockTimeGet ==
    [name |-> "clock_time_get", threw |-> TRUE,
     exn |-> NotImplemented("wasi_unstable", "clock_time_get"),
     ret |-> "none", memw |-> {}]

PollOneoff ==
    [name |-> "poll_oneoff", threw |-> TRUE,
     exn |-> NotImplemented("wasi_unstable", "poll_oneoff"),
     ret |-> "none", memw |-> {}]

NoCall == [name |-> "none", threw |-> FALSE, exn |-> NoExn, ret |-> "none", memw |-> {}]

\* App.proc_exit
ProcExitCall(code) ==
    [name |-> "proc_exit", threw |-> TRUE, exn |-> ProcExit(code),
     ret |-> "none", memw |-> {}]

\* ------------------------------------------------------------- pipeline
\* no module: moduleCache[name] of a name never stored
NoModule == <<>>

NoApp ==
    [stage |-> "none", allowRequestAnimationFrame |-> TRUE, ret |-> "none",
     apiRun |-> "none", module |-> NoModule]

\* the module a stage asks getModule for (clangFilename / lldFilename)
ModuleOf(st) == IF st = "compile" THEN "clang" ELSE "lld"

ModuleNames == {ModuleOf(st) : st \in {"compile", "link"}}

\* the module handle a compileStreaming(name) call resolves with: every call
\* yields a new handle; a request calls it at most once for a name, so the
\* request's number tells the handles of one name apart
CompileStreaming(name, req) == <<name, req>>

\* WebAssembly.compile(buffer) of the linked artifact, never cached
TestMod(req) == <<"test.wasm", req>>

CacheHit_Never(cache, name) == FALSE

\* getModule's test `if (this.moduleCache[name])`
CacheHit(cache, name) == cache[name] # NoModule

\* an await whose rejection is swallowed
Continues_Always(threw) == TRUE

\* `await` in the async IIFE of compileLinkRun and in hostLogAsync: the next
\* statement runs only when the awaited promise was fulfilled.
Continues(threw) == ~threw

\* hostLogAsync after `await promise`
HostLogAsyncAfter(threw) == IF Continues(threw) THEN <<DoneLine>> ELSE <<>>


\* ---------------------------------------------------------------- shims
Min(a, b) == IF a < b THEN a ELSE b

\* sequences over S of length at most n
RECURSIVE SeqsUpTo(_, _)
SeqsUpTo(S, n) ==
    IF n = 0 THEN {<<>>}
    ELSE LET shorter == SeqsUpTo(S, n - 1)
         IN  shorter \cup {Append(q, x) : q \in {r \in shorter : Len(r) = n - 1}, x \in S}

U8Length(u8) == Cardinality(DOMAIN u8)

\* the loop of readStr(u8, o, len): an index past the end reads undefined,
\* which is != 0 and which String.fromCharCode turns into the character 0
RECURSIVE ReadStrLoop(_, _, _)
ReadStrLoop(u8, i, end) ==
    IF i < end /\ (i \in DOMAIN u8 => u8[i] # 0)
    THEN <<(IF i \in DOMAIN u8 THEN u8[i] ELSE 0)>> \o ReadStrLoop(u8, i + 1, end)
    ELSE <<>>

\* readStr(u8, o, len = -1)
ReadStr(u8, o, len) ==
    ReadStrLoop(u8, o, IF len # -1 THEN o + len ELSE U8Length(u8))

\* a number stored into a Uint8Array element
ToUint8(v) == v % 256

\* Memory.write(o, buf) for a string (its char codes) or a byte collection:
\* dst.set(buf)
MemWrite(mem, o, buf) ==
    [a \in DOMAIN mem |->
        IF a >= o /\ a < o + Len(buf) THEN ToUint8(buf[a - o + 1]) ELSE mem[a]]

\* new Uint8Array(this.buffer, o, buf.length) throws a RangeError when the
\* range does not lie inside the buffer
MemWriteThrows(mem, o, buf) == o + Len(buf) > U8Length(mem)

\* Memory.write8(o, v): a store past the end of the view is dropped
MemWrite8(mem, o, v) ==
    [a \in DOMAIN mem |-> IF a = o THEN ToUint8(v) ELSE mem[a]]

\* Memory.writeStr(o, str)
WriteStr(mem, o, str) ==
    IF MemWriteThrows(mem, o, str)
    THEN [op |-> "writeStr", threw |-> TRUE, ret |-> 0, mem |-> mem]
    ELSE [op |-> "writeStr", threw |-> FALSE, ret |-> Len(str) + 1,
          mem |-> MemWrite8(MemWrite(mem, o, str), o + Len(str), 0)]

\* the for loop of host_write over iovs[i..]: <<str, size>>
RECURSIVE HostWriteLoop(_, _, _)
HostWriteLoop(mem, iovs, i) ==
    IF i > Len(iovs) THEN <<<<>>, 0>>
    ELSE LET rest == HostWriteLoop(mem, iovs, i + 1)
         IN  <<ReadStr(mem, iovs[i][1], iovs[i][2]) \o rest[1], iovs[i][2] + rest[2]>>

\* MemFS.host_write(fd, iovs, iovs_len, nwritten_out): sink is the sequence
\* of hostWrite calls it makes, count the value stored at nwritten_out
\* (stored says whether it was stored), ret its return value.
HostWrite(fd, iovs, mem) ==
    IF ~(fd <= 2)
    THEN [op |-> "host_write", threw |-> TRUE, sink |-> <<>>, count |-> 0,
          stored |-> FALSE, ret |-> -1, mem |-> mem, pos |-> 0]
    ELSE LET r == HostWriteLoop(mem, iovs, 1)
         IN  [op |-> "host_write", threw |-> FALSE, sink |-> <<r[1]>>, count |-> r[2],
              stored |-> TRUE, ret |-> ESUCCESS, mem |-> mem, pos |-> 0]

\* the for loop of host_read over iovs[i..], from (mem, size, stdinStrPos)
RECURSIVE HostReadLoop(_, _, _, _, _, _)
HostReadLoop(str, iovs, i, mem, size, pos) ==
    IF i > Len(iovs) THEN [mem |-> mem, size |-> size, pos |-> pos]
    ELSE LET buf == iovs[i][1]
             len == iovs[i][2]
             lenToWrite == Min(len, Len(str) - pos)
         IN  IF lenToWrite = 0 THEN [mem |-> mem, size |-> size, pos |-> pos]
             ELSE LET mem2 == MemWrite(mem, buf, SubSeq(str, pos + 1, pos + lenToWrite))
                  IN  IF lenToWrite # len
                      THEN [mem |-> mem2, size |-> size + lenToWrite,
                            pos |-> pos + lenToWrite]
                      ELSE HostReadLoop(str, iovs, i + 1, mem2, size + lenToWrite,
                                        pos + lenToWrite)

\* MemFS.host_read from hostMem_.check() on, after setStdinStr(str): count is
\* the value stored at nread, pos the new stdinStrPos.
HostReadScatter(fd, iovs, mem, str) ==
    IF fd # 0
    THEN [op |-> "host_read", threw |-> TRUE, sink |-> <<>>, count |-> 0,
          stored |-> FALSE, ret |-> -1, mem |-> mem, pos |-> 0]
    ELSE LET r == HostReadLoop(str, iovs, 1, mem, 0, 0)
         IN  [op |-> "host_read", threw |-> FALSE, sink |-> <<>>, count |-> r.size,
              stored |-> TRUE, ret |-> ESUCCESS, mem |-> r.mem, pos |-> r.pos]

\* the guest memory of the bounded checks: room for MaxIovs buffers
MemSize == MaxIovs * MaxIovLen
ZeroMem == [a \in 0..(MemSize - 1) |-> 0]

\* ------------------------------------------------------------ idle parts
Zeros == [i \in 0..(ShmSize - 1) |-> 0]
NoRead == [k |-> 0, nread |-> 0, bytes |-> <<>>, shmZero |-> TRUE]
NoRes ==
    [op |-> "none", threw |-> FALSE, sink |-> <<>>, count |-> 0, stored |-> FALSE,
     ret |-> -1, mem |-> <<>>, pos |-> 0]

SInit ==
    /\ shm = Zeros
    /\ wpc = "guest"
    /\ di = 0
    /\ dstr = <<>>
    /\ riovs = <<>>
    /\ stdinStr = <<>>
    /\ stdinStrPos = 0
    /\ port = 0
    /\ cpend = 0
    /\ cwpc = "idle"
    /\ cval = <<>>
    /\ ci = 0
    /\ issued = 0
    /\ notified = 0
    /\ returned = 0
    /\ vals = <<>>
    /\ lastRead = NoRead

MIdle ==
    /\ gmem = <<>>
    /\ sfd = 0
    /\ siovs = <<>>
    /\ sin = <<>>
    /\ sres = NoRes

TIdle ==
    /\ tsrc = <<>>
    /\ tu8 = <<>>
    /\ tfs = <<>>
    /\ tdone = "idle"

WIdle ==
    /\ wmem = <<>>
    /\ wo = 0
    /\ wstr = <<>>
    /\ wres = [op |-> "none", threw |-> FALSE, ret |-> 0, mem |-> <<>>, rd |-> <<>>]

\* the two linear memories: the running guest's (App.mem, MemFS.hostMem_)
\* and the filesystem engine's (MemFS.mem)
Memories == {"host", "fs"}

VInit ==
    /\ gen = [m \in Memories |-> 0]
    /\ view = [m \in Memories |-> 0]
    /\ vlast = [op |-> "none", stale |-> FALSE]

\* what a variable that was never assigned holds
NoPort == [kind |-> "undefined"]

\* the worker script has been evaluated: `let api; let port;`
YInit ==
    /\ ypyodide = "null"
    /\ yarchive = "none"
    /\ yport = NoPort
    /\ yout = <<>>
    /\ ylog = <<>>
    /\ yreqs = <<>>

\* hasWorker: the whitelist of proglangs
Proglangs == {"c", "py"}

\* a worker that has not been spawned
NoWorker == [lang |-> "none", state |-> "none", port |-> NoPort, ready |-> FALSE]

\* new Worker(getWorkerPath(proglang)): the script runs, nothing is wired
NewWorker(lang) == [lang |-> lang, state |-> "spawned", port |-> NoPort, ready |-> FALSE]

\* new WebAssembly.Memory({ initial: 1, maximum: 80, shared: true })
NewSharedMem(old, id) == id

\* the fields after `new WorkerAPI(proglang)`: the constructor has run
\* _createWorker once, and the 'constructor' message is on its way
WorkerAPIConstructed(lang, enabled) ==
    /\ isReady = FALSE
    /\ isRunningCode = FALSE
    /\ worker = 1
    /\ sharedEnabled = enabled
    /\ sharedMem = IF enabled THEN NewSharedMem(0, 1) ELSE 0
    /\ workers = [w \in 1..MaxWorkers |-> IF w = 1 THEN NewWorker(lang) ELSE NoWorker]
    /\ toCtl = [w \in 1..MaxWorkers |-> <<>>]
    /\ toWorker = [w \in 1..MaxWorkers |-> <<>>]
    /\ nruns = 0
    /\ staleDone = FALSE

CInit == \E lang \in Proglangs, enabled \in BOOLEAN : WorkerAPIConstructed(lang, enabled)

CIdle == WorkerAPIConstructed("c", FALSE)

\* no message has been formatted
FIdle ==
    /\ fmsg = <<>>
    /\ fres = <<>>

\* no App has been constructed
OInit ==
    /\ oapps = [a \in 1..MaxApps |-> "none"]
    /\ omicro = <<>>
    /\ ohostMem = 0

\* Tar has not been given a buffer
EIdle ==
    /\ eu8 = <<>>
    /\ eoff = 0
    /\ eres = "idle"
    /\ efs = <<>>
    /\ esteps = 0

\* `moduleCache = {}` of a new API; no getModule call has started
GInit ==
    /\ gcache = [n \in ModuleNames |-> NoModule]
    /\ gcall = [c \in 1..MaxCalls |-> [pc |-> "idle", name |-> "none"]]
    /\ gcompiles = [n \in ModuleNames |-> 0]

\* window._workerApi when it is unset or null
NoApi == [proglang |-> "null", prevProglang |-> "null", worker |-> "none"]

\* window._workerApi is unset when the page loads
KInit ==
    /\ kapi = NoApi
    /\ klast = "none"
    /\ kspawned = 0
    /\ kterminated = 0
    /\ kcalls = 0

NIdle == EIdle /\ GInit /\ KInit

ZIdle == CIdle /\ FIdle /\ OInit /\ NIdle

XIdle == TIdle /\ WIdle /\ VInit /\ YInit /\ ZIdle

PInit ==
    /\ pc = <<"none", "idle">>
    /\ fname = "none"
    /\ trace = <<>>
    /\ result = "none"
    /\ apiReady = "pending"
    /\ moduleCache = [n \in ModuleNames |-> NoModule]
    /\ app = NoApp
    /\ hostMem = "none"
    /\ gw = 0
    /\ sys = NoCall
    /\ nreq = 0

ReadySettled_AtMemfs(r) == r # "pending"

\* `await this.ready` resumes once API.ready has settled: memfs.ready has
\* resolved and untar(sysroot) has returned, or one of them has failed
ReadySettled(r) == r \in {"ok", "failed"}

\* API constructor's this.ready: memfs.ready settles; when it resolves the
\* then-callback calls untar(sysroot), which suspends at readBuffer
MemfsReadySettle(ok) ==
    /\ apiReady = "pending"
    /\ apiReady' = IF ok THEN "untar" ELSE "failed"
    /\ UNCHANGED <<pc, fname, trace, result, moduleCache, app, hostMem, gw, sys, nreq>>
    /\ UNCHANGED <<svars, mvars, xvars>>

\* API.untar after readBuffer: tar.untar(memfs) returns or throws (or
\* readBuffer rejected), and API.ready settles
UntarSettle(ok) ==
    /\ apiReady = "untar"
    /\ apiReady' = IF ok THEN "ok" ELSE "failed"
    /\ UNCHANGED <<pc, fname, trace, result, moduleCache, app, hostMem, gw, sys, nreq>>
    /\ UNCHANGED <<svars, mvars, xvars>>

\* compileLinkRun(data) up to its first suspension: the IIFE has entered
\* compile() and waits for this.ready, hostLogAsync has written the log line
\* and waits for the IIFE's promise.
CompileLinkRun(fn) ==
    /\ pc[2] \in {"idle", "settled"}
    /\ nreq < MaxRequests
    /\ nreq' = nreq + 1
    /\ fname' = fn
    /\ trace' = <<Ev("compile", "call"), HostLog(<<"Compiling ", fn, "...">>)>>
    /\ result' = "pending"
    /\ pc' = <<"compile", "ready">>
    /\ app' = NoApp
    /\ gw' = 0
    /\ sys' = NoCall
    /\ UNCHANGED <<apiReady, moduleCache, hostMem>>
    /\ UNCHANGED <<svars, mvars, xvars>>

\* The IIFE's promise settles: hostLogAsync resumes after `await promise`,
\* then compileLinkRun after `await this.hostLogAsync(...)` writes the run
\* line and calls this.run([testMod, wasm]), which constructs the App.
IIFESettled(threw, tr) ==
    IF Continues(threw)
    THEN /\ trace' = tr \o HostLogAsyncAfter(threw) \o <<RunLine(fname), Ev("run", "call")>>
         /\ pc' = <<"run", "inst">>
         /\ UNCHANGED result
    ELSE /\ trace' = tr \o HostLogAsyncAfter(threw)
         /\ result' = "throw"
         /\ pc' = <<"none", "settled">>

\* The promise of this.compile(...) or this.link(...) settles inside the IIFE.
StageSettled(st, threw, tr) ==
    LET t == tr \o <<Ev(st, IF threw THEN "throw" ELSE "return")>> IN
    IF Continues(threw)
    THEN IF st = "compile"
         THEN /\ trace' = t \o <<Ev("link", "call")>>
              /\ pc' = <<"link", "ready">>
              /\ UNCHANGED result
         ELSE /\ trace' = t
              /\ pc' = <<"artifact", "compile">>
              /\ UNCHANGED result
    ELSE IIFESettled(TRUE, t)

\* compile/link after `await this.ready`: addFile (compile only), getModule;
\* on a cache hit getModule returns the entry and this.run constructs the App
AfterReady(st) ==
    /\ pc = <<st, "ready">>
    /\ ReadySettled(apiReady)
    /\ IF apiReady = "failed"
       THEN /\ StageSettled(st, TRUE, trace)
            /\ UNCHANGED app
       ELSE /\ IF CacheHit(moduleCache, ModuleOf(st))
               THEN /\ pc' = <<st, "inst">>
                    /\ app' = [NoApp EXCEPT !.stage = st, !.module = moduleCache[ModuleOf(st)]]
               ELSE /\ pc' = <<st, "fetch">>
                    /\ UNCHANGED app
            /\ UNCHANGED <<trace, result>>
    /\ UNCHANGED <<fname, apiReady, moduleCache, hostMem, gw, sys, nreq>>
    /\ UNCHANGED <<svars, mvars, xvars>>

\* getModule after `await this.compileStreaming(name)`: the module is stored
\* and returned, and this.run constructs the App with it
GetModuleSettle(st, ok) ==
    /\ pc = <<st, "fetch">>
    /\ IF ok
       THEN LET module == CompileStreaming(ModuleOf(st), nreq)
            IN  /\ moduleCache' = [moduleCache EXCEPT ![ModuleOf(st)] = module]
                /\ app' = [NoApp EXCEPT !.stage = st, !.module = module]
                /\ pc' = <<st, "inst">>
                /\ UNCHANGED <<trace, result>>
       ELSE /\ StageSettled(st, TRUE, trace)
            /\ UNCHANGED <<moduleCache, app>>
    /\ UNCHANGED <<fname, apiReady, hostMem, gw, sys, nreq>>
    /\ UNCHANGED <<svars, mvars, xvars>>

\* The IIFE after link: getFileContents(wasm), WebAssembly.compile(buffer)
ArtifactCompiled(ok) ==
    /\ pc = <<"artifact", "compile">>
    /\ IIFESettled(~ok, trace \o <<Ev("artifact", IF ok THEN "return" ELSE "throw")>>)
    /\ UNCHANGED <<fname, apiReady, moduleCache, app, hostMem, gw, sys, nreq>>
    /\ UNCHANGED <<svars, mvars, xvars>>

\* the promise of this.run([testMod, wasm]) settles in compileLinkRun
RunSettled(threw, value, tr) ==
    /\ trace' = tr \o <<Ev("run", IF threw THEN "throw" ELSE "return")>>
                   \o (IF Continues(threw) THEN <<NewLine>> ELSE <<>>)
    /\ result' = IF Continues(threw) THEN value ELSE "throw"
    /\ pc' = <<"none", "settled">>

\* App constructor's this.ready (getInstance), awaited first by App.run; on
\* success the instance's Memory becomes memfs.hostMem and _start() is entered.
Instantiated(st, ok) ==
    /\ pc = <<st, "inst">>
    /\ IF ok
       THEN /\ app' = [stage |-> st, allowRequestAnimationFrame |-> TRUE,
                        ret |-> "none", apiRun |-> "none",
                        module |-> IF st = "run" THEN TestMod(nreq) ELSE app.module]
            /\ hostMem' = st
            /\ trace' = trace \o <<Ev(st, "_start")>>
            /\ pc' = <<st, "guest">>
            /\ UNCHANGED result
       ELSE /\ IF st = "run"
               THEN RunSettled(TRUE, "throw", trace)
               ELSE StageSettled(st, TRUE, trace)
            /\ UNCHANGED <<app, hostMem>>
    /\ gw' = 0
    /\ sys' = NoCall
    /\ UNCHANGED <<fname, apiReady, moduleCache, nreq>>
    /\ UNCHANGED <<svars, mvars, xvars>>

\* how the instance of a stage ended, as a trace entry
GuestEndEv(st, end) ==
    [k |-> "ev", text |-> <<st, IF end.threw THEN "guest.threw" ELSE "guest.returned">>,
     exn |-> end.exn]

\* _start() returns or throws `end`; App.run, API.run and the caller resume.
GuestEnds(st, end, call) ==
    LET r == AppRun(end, app.allowRequestAnimationFrame)
        tr == trace \o <<GuestEndEv(st, end)>> \o r.writes
    IN  /\ app' = [app EXCEPT !.allowRequestAnimationFrame = r.allowRAF,
                               !.ret = r.ret,
                               !.apiRun = APIRun(r.ret)]
        /\ sys' = call
        /\ IF st = "run"
           THEN RunSettled(r.ret = "throw", APIRun(r.ret), tr)
           ELSE StageSettled(st, r.ret = "throw", tr)
        /\ UNCHANGED <<fname, apiReady, moduleCache, hostMem, gw, nreq>>

\* the guest calls fd_write on a standard stream: MemFS.host_write forwards
\* the text to hostWrite at once
GuestWrites(st) ==
    /\ pc = <<st, "guest">>
    /\ gw < MaxGuestWrites
    /\ gw' = gw + 1
    /\ trace' = HostWriteSink(trace, GuestText(gw + 1))
    /\ UNCHANGED <<pc, fname, result, apiReady, moduleCache, app, hostMem, sys, nreq>>
    /\ UNCHANGED <<svars, mvars, xvars>>

\* the guest calls one of the WASI imports that App implements by throwing
GuestCalls(st, call) ==
    /\ pc = <<st, "guest">>
    /\ IF call.threw
       THEN GuestEnds(st, Threw(call.exn), call)
       ELSE /\ sys' = call
            /\ UNCHANGED <<pc, fname, trace, result, apiReady, moduleCache, app, hostMem, gw, nreq>>
    /\ UNCHANGED <<svars, mvars, xvars>>

\* _start() returns normally
GuestReturns(st) ==
    /\ pc = <<st, "guest">>
    /\ GuestEnds(st, Returned, sys)
    /\ UNCHANGED <<svars, mvars, xvars>>

\* the engine raises a fault inside the guest
GuestTraps(st) ==
    /\ pc = <<st, "guest">>
    /\ GuestEnds(st, Threw(RuntimeError), sys)
    /\ UNCHANGED <<svars, mvars, xvars>>

WasiCalls == {ClockTimeGet, PollOneoff} \cup {ProcExitCall(c) : c \in ExitCodes}

PNext ==
    \/ \E ok \in BOOLEAN : MemfsReadySettle(ok)
    \/ \E ok \in BOOLEAN : UntarSettle(ok)
    \/ \E fn \in FileNames : CompileLinkRun(fn)
    \/ \E st \in {"compile", "link"} : AfterReady(st)
    \/ \E st \in {"compile", "link"}, ok \in BOOLEAN : GetModuleSettle(st, ok)
    \/ \E ok \in BOOLEAN : ArtifactCompiled(ok)
    \/ \E st \in Stages, ok \in BOOLEAN : Instantiated(st, ok)
    \/ \E st \in Stages : GuestWrites(st)
    \/ \E st \in Stages, call \in WasiCalls : GuestCalls(st, call)
    \/ \E st \in Stages : GuestReturns(st)
    \/ \E st \in Stages : GuestTraps(st)

\* ====================================================================
\* The stdin mailbox: worker thread and controlling thread (SpecStdin)
\* ====================================================================
\* values waitForInput() can resolve with
Payloads ==
    SeqsUpTo(Chars, MaxPayload)
    \cup {[i \in 1..n |-> 1] : n \in ShmSize..(ShmSize + 1)}   \* fill the mailbox

\* iovec arrays the guest passes to fd_read: one buffer at address 0
ReadIovs == {<<<<0, len>>>> : len \in 1..MaxIovLen}

\* the element of Int32Array(sharedMem.buffer) at index 0 is 0
Word0IsZero(m) == \A i \in 0..3 : m[i] = 0

\* options.hostReadLine of the worker posts one readStdin message: the
\* number of undispatched messages after the call
HostReadLine(posted) == posted + 1

\* the guest calls fd_read: host_read runs up to Atomics.wait
HostReadCall(iovs) ==
    /\ wpc = "guest"
    /\ issued < MaxReads
    /\ riovs' = iovs
    /\ port' = HostReadLine(port)
    /\ issued' = issued + (port' - port)
    /\ wpc' = "posted"
    /\ UNCHANGED <<shm, di, dstr, stdinStr, stdinStrPos, cpend, cwpc, cval, ci,
                   notified, returned, vals, lastRead, pvars, mvars, xvars>>

\* Atomics.wait(int32, 0, 0): returns at once ("not-equal") when the word is
\* not 0, suspends the worker otherwise
AtomicsWait ==
    /\ wpc = "posted"
    /\ wpc' = IF Word0IsZero(shm) THEN "blocked" ELSE "drain"
    /\ di' = 0
    /\ dstr' = <<>>
    /\ UNCHANGED <<shm, riovs, stdinStr, stdinStrPos, port, cpend, cwpc, cval, ci,
                   issued, notified, returned, vals, lastRead, pvars, mvars, xvars>>

\* one iteration of the drain loop; at the terminator, setStdinStr(str).
\* The loop has no bound: past the end of the array sharedMem[i] is
\* undefined, which is not 0, and String.fromCharCode(undefined) is "\0"
DrainStep ==
    /\ wpc = "drain"
    /\ di < ShmSize + MaxOverrun
    /\ IF di \in DOMAIN shm /\ shm[di] = 0
       THEN /\ stdinStr' = dstr
            /\ stdinStrPos' = 0
            /\ wpc' = "fill"
            /\ UNCHANGED <<di, dstr>>
       ELSE /\ dstr' = Append(dstr, IF di \in DOMAIN shm THEN shm[di] ELSE 0)
            /\ di' = di + 1
            /\ UNCHANGED <<stdinStr, stdinStrPos, wpc>>
    /\ UNCHANGED <<shm, riovs, port, cpend, cwpc, cval, ci,
                   issued, notified, returned, vals, lastRead, pvars, mvars, xvars>>

\* sharedMem.fill(0)
FillZero ==
    /\ wpc = "fill"
    /\ shm' = Zeros
    /\ wpc' = "scatter"
    /\ UNCHANGED <<di, dstr, riovs, stdinStr, stdinStrPos, port, cpend, cwpc, cval, ci,
                   issued, notified, returned, vals, lastRead, pvars, mvars, xvars>>

\* the rest of host_read: scatter stdinStr over the iovecs, store nread, return
HostReadReturn ==
    /\ wpc = "scatter"
    /\ LET r == HostReadScatter(0, riovs, ZeroMem, stdinStr)
       IN  /\ stdinStrPos' = r.pos
           /\ lastRead' = [k |-> returned + 1, nread |-> r.count,
                           bytes |-> [j \in 1..r.count |-> r.mem[riovs[1][1] + j - 1]],
                           shmZero |-> shm = Zeros]
    /\ returned' = returned + 1
    /\ wpc' = "guest"
    /\ UNCHANGED <<shm, di, dstr, riovs, stdinStr, port, cpend, cwpc, cval, ci,
                   issued, notified, vals, pvars, mvars, xvars>>

\* WorkerAPI.onmessage, case 'readStdin': waitForInput() is called
OnReadStdin ==
    /\ port > 0
    /\ port' = port - 1
    /\ cpend' = cpend + 1
    /\ UNCHANGED <<shm, wpc, di, dstr, riovs, stdinStr, stdinStrPos, cwpc, cval, ci,
                   issued, notified, returned, vals, lastRead, pvars, mvars, xvars>>

\* waitForInput() resolves with value: the .then callback starts
InputResolves(value) ==
    /\ cpend > 0
    /\ cwpc = "idle"
    /\ cpend' = cpend - 1
    /\ cval' = value
    /\ ci' = 0
    /\ cwpc' = IF Len(value) > 0 THEN "bytes" ELSE "term"
    /\ vals' = Append(vals, value)
    /\ UNCHANGED <<shm, wpc, di, dstr, riovs, stdinStr, stdinStrPos, port,
                   issued, notified, returned, lastRead, pvars, mvars, xvars>>

\* view[i] = value.charCodeAt(i): a store past the end of the view is dropped
WriteByte ==
    /\ cwpc = "bytes"
    /\ shm' = IF ci \in DOMAIN shm THEN [shm EXCEPT ![ci] = cval[ci + 1]] ELSE shm
    /\ ci' = ci + 1
    /\ cwpc' = IF ci + 1 < Len(cval) THEN "bytes" ELSE "term"
    /\ UNCHANGED <<wpc, di, dstr, riovs, stdinStr, stdinStrPos, port, cpend, cval,
                   issued, notified, returned, vals, lastRead, pvars, mvars, xvars>>

\* view[value.length] = 0
WriteTerminator ==
    /\ cwpc = "term"
    /\ shm' = IF Len(cval) \in DOMAIN shm THEN [shm EXCEPT ![Len(cval)] = 0] ELSE shm
    /\ cwpc' = "notify"
    /\ UNCHANGED <<wpc, di, dstr, riovs, stdinStr, stdinStrPos, port, cpend, cval, ci,
                   issued, notified, returned, vals, lastRead, pvars, mvars, xvars>>

\* Atomics.notify(int32, 0): wakes the worker if it is suspended in the wait
AtomicsNotify ==
    /\ cwpc = "notify"
    /\ cwpc' = "idle"
    /\ notified' = notified + 1
    /\ wpc' = IF wpc = "blocked" THEN "drain" ELSE wpc
    /\ UNCHANGED <<shm, di, dstr, riovs, stdinStr, stdinStrPos, port, cpend, cval, ci,
                   issued, returned, vals, lastRead, pvars, mvars, xvars>>

SNext ==
    \/ \E iovs \in ReadIovs : HostReadCall(iovs)
    \/ AtomicsWait
    \/ DrainStep
    \/ FillZero
    \/ HostReadReturn
    \/ OnReadStdin
    \/ \E value \in Payloads : InputResolves(value)
    \/ WriteByte
    \/ WriteTerminator
    \/ AtomicsNotify

InitStdin == PInit /\ SInit /\ MIdle /\ XIdle

SpecStdin == InitStdin /\ [][SNext]_vars

\* ====================================================================
\* The shims applied to bounded inputs (SpecShim)
\* ====================================================================
\* iovec arrays of disjoint buffers: iovec i starts at (i-1)*MaxIovLen
IovArray(lens) == [i \in 1..Len(lens) |-> <<(i - 1) * MaxIovLen, lens[i]>>]
IovArrays == {IovArray(lens) : lens \in SeqsUpTo(0..MaxIovLen, MaxIovs)}

\* the texts with which a memory fills the buffers of iovs
RECURSIVE FillBuffers(_, _, _)
FillBuffers(mem, iovs, texts) ==
    IF iovs = <<>> THEN mem
    ELSE FillBuffers(MemWrite(mem, Head(iovs)[1], Head(texts)), Tail(iovs), Tail(texts))

RECURSIVE TextsFor(_)
TextsFor(iovs) ==
    IF iovs = <<>> THEN {<<>>}
    ELSE {<<t>> \o rest : t \in {q \in SeqsUpTo(Bytes, Head(iovs)[2]) : Len(q) = Head(iovs)[2]},
                          rest \in TextsFor(Tail(iovs))}

MInit ==
    /\ sres = NoRes
    /\ siovs \in IovArrays
    /\ \/ /\ sfd \in {-1, 1, 3}
          /\ sin = <<>>
          /\ gmem \in {FillBuffers(ZeroMem, siovs, texts) : texts \in TextsFor(siovs)}
       \/ /\ sfd \in {0, 1}
          /\ sin \in SeqsUpTo(Chars, MaxIovLen + 1)
          /\ gmem = ZeroMem

\* the guest calls fd_write(sfd, siovs)
CallHostWrite ==
    /\ sres.op = "none"
    /\ sin = <<>>
    /\ sres' = HostWrite(sfd, siovs, gmem)
    /\ gmem' = sres'.mem
    /\ UNCHANGED <<sfd, siovs, sin, pvars, svars, xvars>>

\* host_read, with stdinStr = sin drained from the mailbox, scatters
CallHostReadScatter ==
    /\ sres.op = "none"
    /\ gmem = ZeroMem
    /\ sres' = HostReadScatter(sfd, siovs, gmem, sin)
    /\ gmem' = sres'.mem
    /\ UNCHANGED <<sfd, siovs, sin, pvars, svars, xvars>>

MNext == CallHostWrite \/ CallHostReadScatter

InitShim == PInit /\ SInit /\ MInit /\ XIdle

SpecShim == InitShim /\ [][MNext]_vars

\* ====================================================================
\* The archive loader: Tar.readEntry / Tar.untar into MemFS (SpecTar)
\* ====================================================================
\* The 512-byte header is scaled to the fields untar uses, one byte each:
\* filename, size (one octal digit), type flag, magic; a block is Block
\* bytes.  Characters are their codes.
TypeFile == 48       \* '0'
TypeDir == 53        \* '5'
TypeOther == 50      \* '2': a flag that is neither '0' nor '5'
Magic == 117         \* stands for 'ustar  '

\* the NaN of a JavaScript number (no size or offset of the model is negative)
NaN == -1

\* parseInt(str, 8): the value of the longest prefix of octal digits; NaN
\* when the string does not start with one (an empty field, "9", "x")
RECURSIVE ParseOctalFrom(_, _, _)
ParseOctalFrom(str, acc, any) ==
    IF str = <<>> \/ Head(str) \notin 48..55
    THEN IF any THEN acc ELSE NaN
    ELSE ParseOctalFrom(Tail(str), 8 * acc + (Head(str) - 48), TRUE)

ParseOctal(str) == ParseOctalFrom(str, 0, FALSE)

\* a + b on JavaScript numbers
Plus(a, b) == IF a = NaN \/ b = NaN THEN NaN ELSE a + b

\* Tar.alignUp applied to an offset: (offset + 511) & ~511; the operand of
\* & is converted to an int32, and NaN converts to 0
AlignUp(offset) ==
    IF offset = NaN THEN 0 ELSE ((offset + Block - 1) \div Block) * Block

Subarray_WithPadding(u8, begin, end) ==
    [j \in 1..(Min(AlignUp(end), U8Length(u8)) - Min(begin, U8Length(u8))) |-> u8[begin + j - 1]]

\* u8.subarray(begin, end): both ends are clamped to the array; an end of
\* NaN counts as 0, and an end before begin gives an empty view
Subarray(u8, begin, end) ==
    [j \in 1..(Min(IF end = NaN THEN 0 ELSE end, U8Length(u8)) - Min(begin, U8Length(u8)))
        |-> u8[begin + j - 1]]

NullEntry == [kind |-> "null", filename |-> <<>>, type |-> <<>>, contents |-> <<>>,
              offset |-> 0]

MagicMatches_Always(magic) == TRUE

\* the test of `this.readStr(8) !== 'ustar  '`
MagicMatches(magic) == magic = <<Magic>>

\* Tar.readEntry at this.offset = offset: null, an entry (with the offset
\* it leaves), or the AssertError of an unknown type flag
ReadEntry(u8, offset) ==
    IF offset + Block > U8Length(u8) THEN NullEntry
    ELSE LET filename == ReadStr(u8, offset, 1)
             size == ParseOctal(ReadStr(u8, offset + 1, 1))
             type == ReadStr(u8, offset + 2, 1)
             magic == ReadStr(u8, offset + 3, 1)
             data == AlignUp(offset + 4)
         IN  IF ~MagicMatches(magic) THEN NullEntry
             ELSE IF type = <<TypeFile>>
                  THEN [kind |-> "entry", filename |-> filename, type |-> type,
                        contents |-> Subarray(u8, data, Plus(data, size)),
                        offset |-> AlignUp(Plus(data, size))]
                  ELSE IF type # <<TypeDir>>
                       THEN [NullEntry EXCEPT !.kind = "throw"]
                       ELSE [kind |-> "entry", filename |-> filename, type |-> type,
                             contents |-> <<>>, offset |-> data]

\* MemFS.addDirectory(path): a directory node is registered under path
AddDirectory(fs, path) ==
    Append(fs, [kind |-> "directory", path |-> path, contents |-> <<>>])

\* MemFS.addFile(path, contents): a file node of contents.length bytes is
\* registered under path and the contents are copied into it
AddFile(fs, path, contents) ==
    Append(fs, [kind |-> "file", path |-> path, contents |-> contents])

\* Tar.untar(memfs) from this.offset = offset on: the registrations after
\* the loop, and whether readEntry threw
RECURSIVE Untar(_, _, _)
Untar(u8, offset, fs) ==
    LET entry == ReadEntry(u8, offset) IN
    IF entry.kind = "null" THEN [fs |-> fs, threw |-> FALSE]
    ELSE IF entry.kind = "throw" THEN [fs |-> fs, threw |-> TRUE]
    ELSE IF entry.type = <<TypeFile>>
         THEN Untar(u8, entry.offset, AddFile(fs, entry.filename, entry.contents))
         ELSE Untar(u8, entry.offset, AddDirectory(fs, entry.filename))

\* ---- archives as a tar writer lays them out ----
ZeroPad(n) == [j \in 1..n |-> 0]

PadToBlock(bytes) == bytes \o ZeroPad(AlignUp(Len(bytes)) - Len(bytes))

\* one entry: header block, then for a file its contents padded to a block
EntryBytes(e) ==
    PadToBlock(<<e.name, 48 + Len(e.contents), e.type,
                 IF e.magic THEN Magic ELSE 0>>)
        \o (IF e.type = TypeFile THEN PadToBlock(e.contents) ELSE <<>>)

RECURSIVE ArchiveBytes(_)
ArchiveBytes(entries) ==
    IF entries = <<>> THEN <<>>
    ELSE EntryBytes(Head(entries)) \o ArchiveBytes(Tail(entries))

\* a byte sequence as a Uint8Array (indices from 0)
AsU8(bytes) == [a \in 0..(Len(bytes) - 1) |-> bytes[a + 1]]

TarNames == {1, 2}

TarEntries ==
    {[name |-> n, type |-> TypeFile, contents |-> c, magic |-> TRUE] :
        n \in TarNames, c \in SeqsUpTo(Chars, MaxFileSize)}
    \cup {[name |-> n, type |-> t, contents |-> <<>>, magic |-> TRUE] :
            n \in TarNames, t \in {TypeDir, TypeOther}}
    \cup {[name |-> 1, type |-> TypeFile, contents |-> <<>>, magic |-> FALSE]}

\* archives end with a block of zeros, or right after the last entry
TInit ==
    /\ tsrc \in SeqsUpTo(TarEntries, MaxEntries)
    /\ \E trailer \in {0, Block} : tu8 = AsU8(ArchiveBytes(tsrc) \o ZeroPad(trailer))
    /\ tfs = <<>>
    /\ tdone = "idle"

\* API.untar: tar.untar(this.memfs), run to its end
TarUntar ==
    /\ tdone = "idle"
    /\ LET r == Untar(tu8, 0, tfs)
       IN  /\ tfs' = r.fs
           /\ tdone' = IF r.threw THEN "threw" ELSE "returned"
    /\ UNCHANGED <<tsrc, tu8, pvars, svars, mvars, wvars, vvars, yvars, zvars>>

TNext == TarUntar

InitTar == PInit /\ SInit /\ MIdle /\ TInit /\ WIdle /\ VInit /\ YInit /\ ZIdle

SpecTar == InitTar /\ [][TNext]_vars

\* ---- the same loop on arbitrary buffers, one readEntry per step ----
\* a buffer is any sequence of blocks; a block is a header with any size
\* field (empty, an octal digit, a non-octal character), a header with a
\* wrong magic, or zeros
SizeFields == {0, 49, 57}

RawBlocks ==
    {PadToBlock(<<1, sz, ty, Magic>>) : sz \in SizeFields, ty \in {TypeFile, TypeDir}}
    \cup {PadToBlock(<<1, 48, TypeOther, Magic>>), PadToBlock(<<1, 48, TypeFile, 0>>),
          ZeroPad(Block)}

RECURSIVE RawBuffers(_)
RawBuffers(n) ==
    IF n = 0 THEN {<<>>}
    ELSE LET shorter == RawBuffers(n - 1) IN
         shorter \cup {b \o blk : b \in {x \in shorter : Len(x) = (n - 1) * Block},
                                   blk \in RawBlocks}

\* `new Tar(buffer)`: offset 0
EInit ==
    /\ eu8 \in {AsU8(b) : b \in RawBuffers(MaxBlocks) \ {<<>>}}
    /\ eoff = 0
    /\ eres = "idle"
    /\ efs = <<>>
    /\ esteps = 0

\* one iteration of `while (entry = this.readEntry())` in Tar.untar
ReadEntryStep ==
    /\ eres \in {"idle", "entry"}
    /\ esteps < MaxReadEntries
    /\ LET entry == ReadEntry(eu8, eoff) IN
       /\ eres' = entry.kind
       /\ eoff' = IF entry.kind = "entry" THEN entry.offset ELSE eoff
       /\ efs' = IF entry.kind # "entry" THEN efs
                 ELSE IF entry.type = <<TypeFile>>
                      THEN AddFile(efs, entry.filename, entry.contents)
                      ELSE AddDirectory(efs, entry.filename)
    /\ esteps' = esteps + 1
    /\ UNCHANGED <<eu8, gvars, kvars, pvars, svars, mvars, tvars, wvars, vvars, yvars,
                   cvars, fvars, ovars>>

ENext == ReadEntryStep

InitRead == PInit /\ SInit /\ MIdle /\ TIdle /\ WIdle /\ VInit /\ YInit /\ CIdle /\ FIdle
            /\ OInit /\ EInit /\ GInit /\ KInit

SpecRead == InitRead /\ [][ENext]_vars

\* ====================================================================
\* Overlapping API.getModule calls on one API object
\* ====================================================================
\* compile, link and compileLinkRun are async methods that anyone holding
\* the API may call again before an earlier call has settled; each
\* getModule invocation runs to its await and resumes in a later task.

\* getModule(name) up to its first await: a hit returns the cached module,
\* a miss invokes compileStreaming(name) and suspends
GetModuleCall(c, name) ==
    /\ gcall[c].pc = "idle"
    /\ \A b \in 1..(c - 1) : gcall[b].pc # "idle"
    /\ IF CacheHit(gcache, name)
       THEN /\ gcall' = [gcall EXCEPT ![c] = [pc |-> "returned", name |-> name]]
            /\ UNCHANGED gcompiles
       ELSE /\ gcall' = [gcall EXCEPT ![c] = [pc |-> "compiling", name |-> name]]
            /\ gcompiles' = [gcompiles EXCEPT ![name] = @ + 1]
    /\ UNCHANGED <<gcache, evars, kvars, pvars, svars, mvars, tvars, wvars, vvars, yvars,
                   cvars, fvars, ovars>>

\* the compileStreaming promise of invocation c settles: on success the
\* module is stored in the cache and returned, on failure getModule rejects
GetModuleResumes(c, ok) ==
    /\ gcall[c].pc = "compiling"
    /\ gcall' = [gcall EXCEPT ![c].pc = IF ok THEN "returned" ELSE "rejected"]
    /\ gcache' = IF ok
                 THEN [gcache EXCEPT ![gcall[c].name] = CompileStreaming(gcall[c].name, c)]
                 ELSE gcache
    /\ UNCHANGED <<gcompiles, evars, kvars, pvars, svars, mvars, tvars, wvars, vvars,
                   yvars, cvars, fvars, ovars>>

GNext ==
    \/ \E c \in 1..MaxCalls, name \in ModuleNames : GetModuleCall(c, name)
    \/ \E c \in 1..MaxCalls, ok \in BOOLEAN : GetModuleResumes(c, ok)

InitCache == PInit /\ SInit /\ MIdle /\ TIdle /\ WIdle /\ VInit /\ YInit /\ CIdle /\ FIdle
             /\ OInit /\ EIdle /\ GInit /\ KInit

SpecCache == InitCache /\ [][GNext]_vars

\* ====================================================================
\* createWorkerApi and window._workerApi
\* ====================================================================
\* the proglangs createWorkerApi is called with: those of the whitelist
\* and two without a worker
RequestedProglangs == {"c", "py", "md", "txt"}

\* hasWorker(proglang): membership of the whitelist
HasWorker(proglang) == proglang \in {"c", "py"}

\* getWorkerPath(proglang), as the name of the worker script
GetWorkerPath(proglang) == IF proglang = "c" THEN "clang" ELSE proglang

SetProglang_Skipped(api, newLang) == api

\* the setter `set proglang(newLang)`
SetProglang(api, newLang) ==
    [api EXCEPT !.prevProglang = api.proglang, !.proglang = newLang]

\* _createWorker: the worker of the object's current proglang is spawned
CreateWorker(api) == [api EXCEPT !.worker = GetWorkerPath(api.proglang)]

\* new WorkerAPI(proglang): the fields start as null, the setter runs, then
\* _createWorker
NewWorkerAPI(proglang) == CreateWorker(SetProglang(NoApi, proglang))

\* createWorkerApi(proglang). terminate() stops the worker; restart() is
\* _createWorker, which terminates the existing worker and spawns one
CreateWorkerApi(proglang) ==
    /\ kcalls < MaxApiCalls
    /\ kcalls' = kcalls + 1
    /\ klast' = proglang
    /\ IF kapi = NoApi /\ HasWorker(proglang)
       THEN /\ kapi' = NewWorkerAPI(proglang)
            /\ kspawned' = kspawned + 1
            /\ UNCHANGED kterminated
       ELSE IF kapi # NoApi /\ kapi.proglang # proglang
            THEN LET api == SetProglang(kapi, proglang) IN
                 IF ~HasWorker(proglang)
                 THEN /\ kapi' = NoApi
                      /\ kterminated' = kterminated + 1
                      /\ UNCHANGED kspawned
                 ELSE /\ kapi' = CreateWorker(api)
                      /\ kterminated' = kterminated + 1
                      /\ kspawned' = kspawned + 1
            ELSE UNCHANGED <<kapi, kspawned, kterminated>>
    /\ UNCHANGED <<evars, gvars, pvars, svars, mvars, tvars, wvars, vvars, yvars,
                   cvars, fvars, ovars>>

KNext == \E proglang \in RequestedProglangs : CreateWorkerApi(proglang)

InitApi == PInit /\ SInit /\ MIdle /\ TIdle /\ WIdle /\ VInit /\ YInit /\ CIdle /\ FIdle
           /\ OInit /\ EIdle /\ GInit /\ KInit

SpecApi == InitApi /\ [][KNext]_vars

\* ====================================================================
\* Memory.writeStr and readStr on bounded inputs (SpecStr)
\* ====================================================================
\* char codes of the strings written: two Latin-1 characters and two
\* characters above U+00FF; none is NUL
CharCodes == {1, 2, 256, 257}

WInit ==
    /\ wmem \in [0..(StrMemSize - 1) -> {0, 2}]
    /\ wo \in 0..StrMemSize
    /\ wstr \in SeqsUpTo(CharCodes, MaxStrLen)
    /\ wres = [op |-> "none", threw |-> FALSE, ret |-> 0, mem |-> <<>>, rd |-> <<>>]

\* mem.writeStr(wo, wstr), then mem.readStr(wo)
CallWriteStr ==
    /\ wres.op = "none"
    /\ LET r == WriteStr(wmem, wo, wstr)
       IN  wres' = [op |-> r.op, threw |-> r.threw, ret |-> r.ret, mem |-> r.mem,
                    rd |-> IF r.threw THEN <<>> ELSE ReadStr(r.mem, wo, -1)]
    /\ UNCHANGED <<wmem, wo, wstr, pvars, svars, mvars, tvars, vvars, yvars, zvars>>

WNext == CallWriteStr

InitStr == PInit /\ SInit /\ MIdle /\ TIdle /\ WInit /\ VInit /\ YInit /\ ZIdle

SpecStr == InitStr /\ [][WNext]_vars

\* ====================================================================
\* Memory views: Memory.check and the accesses of shims and MemFS (SpecView)
\* ====================================================================
\* An operation is the sequence of its steps, in source order:
\*   <<"check", m>>   m.check()
\*   <<"access", m>>  a read or write through m.buffer / m.u8 / m.u32
\*   <<"alloc", m>>   a call of an engine export that allocates in m and so
\*                    may grow it (AddFileNode, AddDirectoryNode)
\*   <<"query", m>>   a call of an engine export that only looks up
AddDirectorySteps ==
    <<<<"check", "fs">>, <<"query", "fs">>, <<"access", "fs">>, <<"alloc", "fs">>>>

AddFileSteps ==
    <<<<"check", "fs">>, <<"query", "fs">>, <<"access", "fs">>, <<"alloc", "fs">>,
      <<"query", "fs">>, <<"check", "fs">>, <<"access", "fs">>>>

GetFileContentsSteps ==
    <<<<"check", "fs">>, <<"query", "fs">>, <<"access", "fs">>, <<"query", "fs">>,
      <<"query", "fs">>, <<"query", "fs">>, <<"access", "fs">>>>

HostWriteSteps == <<<<"check", "host">>, <<"access", "host">>>>

HostReadSteps == <<<<"check", "host">>, <<"access", "host">>>>

MemfsLogSteps == <<<<"check", "fs">>, <<"access", "fs">>>>

CopyOutSteps ==
    <<<<"check", "host">>, <<"access", "host">>, <<"check", "fs">>, <<"access", "fs">>>>

CopyInSteps ==
    <<<<"check", "fs">>, <<"access", "fs">>, <<"check", "host">>, <<"access", "host">>>>

EnvironSizesGetSteps == <<<<"check", "host">>, <<"access", "host">>>>

EnvironGetSteps == <<<<"check", "host">>, <<"access", "host">>>>

ArgsSizesGetSteps == <<<<"check", "host">>, <<"access", "host">>>>

ArgsGetSteps == <<<<"check", "host">>, <<"access", "host">>>>

RandomGetSteps == <<<<"access", "host">>>>

Operations ==
    [addDirectory |-> AddDirectorySteps, addFile |-> AddFileSteps,
     getFileContents |-> GetFileContentsSteps, host_write |-> HostWriteSteps,
     host_read |-> HostReadSteps, memfs_log |-> MemfsLogSteps,
     copy_out |-> CopyOutSteps, copy_in |-> CopyInSteps,
     environ_sizes_get |-> EnvironSizesGetSteps, environ_get |-> EnvironGetSteps,
     args_sizes_get |-> ArgsSizesGetSteps, args_get |-> ArgsGetSteps,
     random_get |-> RandomGetSteps]

\* Memory.check(): a grown store has detached the old buffer (byteLength 0),
\* and the views are bound again to the current one
MemoryCheck(g, v, m) == [v EXCEPT ![m] = g[m]]

\* the steps from i on, on stores g and views v; grows says whether the
\* allocating call grows its memory
RECURSIVE RunSteps(_, _, _, _, _, _)
RunSteps(steps, i, g, v, grows, stale) ==
    IF i > Len(steps) THEN [gen |-> g, view |-> v, stale |-> stale]
    ELSE LET kind == steps[i][1]
             m == steps[i][2]
         IN  IF kind = "check"
             THEN RunSteps(steps, i + 1, g, MemoryCheck(g, v, m), grows, stale)
             ELSE IF kind = "access"
             THEN RunSteps(steps, i + 1, g, v, grows, stale \/ v[m] # g[m])
             ELSE IF kind = "alloc" /\ grows /\ g[m] < MaxGrows
             THEN RunSteps(steps, i + 1, [g EXCEPT ![m] = g[m] + 1], v, grows, stale)
             ELSE RunSteps(steps, i + 1, g, v, grows, stale)

\* guest code (the running program for "host", the engine for "fs") grows
\* its memory: memory.grow
GuestGrows(m) ==
    /\ gen[m] < MaxGrows
    /\ gen' = [gen EXCEPT ![m] = gen[m] + 1]
    /\ UNCHANGED <<view, vlast, pvars, svars, mvars, tvars, wvars, yvars, zvars>>

\* App constructor's then-callback: a new instance with a new memory, and a
\* new Memory object bound to it, becomes memfs.hostMem
NewInstance ==
    /\ gen' = [gen EXCEPT !["host"] = 0]
    /\ view' = [view EXCEPT !["host"] = 0]
    /\ vlast' = [op |-> "instantiate", stale |-> FALSE]
    /\ UNCHANGED <<pvars, svars, mvars, tvars, wvars, yvars, zvars>>

\* one MemFS or App operation runs from its first to its last step
RunOperation(op, grows) ==
    /\ LET r == RunSteps(Operations[op], 1, gen, view, grows, FALSE)
       IN  /\ gen' = r.gen
           /\ view' = r.view
           /\ vlast' = [op |-> op, stale |-> r.stale]
    /\ UNCHANGED <<pvars, svars, mvars, tvars, wvars, yvars, zvars>>

VNext ==
    \/ \E m \in Memories : GuestGrows(m)
    \/ NewInstance
    \/ \E op \in DOMAIN Operations, grows \in BOOLEAN : RunOperation(op, grows)

InitView == PInit /\ SInit /\ MIdle /\ TIdle /\ WIdle /\ VInit /\ YInit /\ ZIdle

SpecView == InitView /\ [][VNext]_vars

\* ====================================================================
\* The Python worker: onAnyMessage, API.initPyodide, API.runUserCode and
\* API.runButtonCommand (SpecPy)
\* ====================================================================
Selectors == {"#check", "#test"}

\* the requests WorkerAPI posts: a runUserCode message has no selector
PyRequests ==
    {[id |-> "runUserCode", selector |-> "none"]}
    \cup {[id |-> "runButtonCommand", selector |-> x] : x \in Selectors}

\* what in a request's data decides the path through its handler:
\*   files: "none" (no files), "other" (files, none named activeTabName),
\*          "active" (files, one of them named activeTabName)
\*   py:    what this.run does: "stdout" (output), "silent" (no output, no
\*          value), "error" (runPython throws, the message is returned),
\*          "crash" (a statement of run outside its try throws)
PyData == [files : {"none", "other", "active"}, py : {"stdout", "silent", "error", "crash"}]

\* channel.port2 of the MessageChannel number ch
RemotePort(ch) == [kind |-> "MessagePort", channel |-> ch]

\* _createWorker: constructorData = { port: remotePort }, with sharedMem
\* when shared memory is enabled (mem = 0: the property is absent)
ConstructorData(ch, mem) == [kind |-> "Object", port |-> RemotePort(ch), sharedMem |-> mem]

\* onAnyMessage, case 'constructor': port = event.data.data
WorkerPort(data) == data

\* only a MessagePort has postMessage, and only its onmessage receives
IsMessagePort(p) == p.kind = "MessagePort"

\* port.postMessage(...) on anything else: "port.postMessage is not a
\* function", a TypeError
PostMessageThrows(p) == ~IsMessagePort(p)

\* the messages that reach the channel out of the calls of the options
Posted(p, calls) == IF IsMessagePort(p) THEN calls ELSE <<>>

\* the calls of the worker's options: each is one port.postMessage({ id,
\* ... }); n is the number of the request being handled
WriteEvent(n) == [id |-> "write", req |-> n, selector |-> "none"]

ReadyEvent == [id |-> "ready", req |-> 0, selector |-> "none"]

RunUserCodeCallbackEvent(n) == [id |-> "runUserCodeCallback", req |-> n, selector |-> "none"]

RunButtonCommandCallbackEvent(n, selector) ==
    [id |-> "runButtonCommandCallback", req |-> n, selector |-> selector]

\* BaseAPI.hostWriteCmd(cmd): the command line is written to the terminal
HostWriteCmd(n) == <<WriteEvent(n)>>

\* BaseAPI's constructor keeps options.runUserCodeCallback, so that
\* `typeof this.runUserCodeCallback === 'function'` holds in the worker
HasRunUserCodeCallback == TRUE

\* writeFilesToVirtualFS(files) throws when there is a file and no pyodide
WriteFilesThrows(d, pyodide) == d.files # "none" /\ pyodide = "null"

\* API.run(code, activeTabName): "throw", or whether it returns something
\* truthy
PyRun(d, pyodide) ==
    IF pyodide = "null" \/ d.py = "crash" THEN "throw"
    ELSE IF d.py = "silent" THEN "falsy" ELSE "truthy"

\* API.runUserCode({ activeTabName, files }): the options it calls; a
\* hostWrite that throws ends the try block, the finally block still runs
RunUserCode(d, n, pyodide, p) ==
    LET body ==
            IF WriteFilesThrows(d, pyodide) THEN <<>>
            ELSE IF d.files # "active" THEN <<>>    \* activeTab is undefined
            ELSE HostWriteCmd(n)
                    \o (IF ~PostMessageThrows(p) /\ PyRun(d, pyodide) = "truthy"
                        THEN <<WriteEvent(n)>> ELSE <<>>)
    IN  body \o (IF HasRunUserCodeCallback THEN <<RunUserCodeCallbackEvent(n)>> ELSE <<>>)

\* API.runButtonCommand({ selector, activeTabName, cmd, files })
RunButtonCommand(selector, d, n, pyodide) ==
    LET body ==
            IF WriteFilesThrows(d, pyodide) \/ PyRun(d, pyodide) = "throw" THEN <<>>
            ELSE <<WriteEvent(n)>>
    IN  body \o <<RunButtonCommandCallbackEvent(n, selector)>>

InitPyodideCalls_Early(stage) == <<ReadyEvent>>

\* the then-callback of initPyodide: what it calls on reaching a stage;
\* this.readyCallback() is its last statement, after unpackArchive
InitPyodideCalls(stage) == IF stage = "unpacked" THEN <<ReadyEvent>> ELSE <<>>

\* onAnyMessage, case 'constructor': port is assigned, the API is made and
\* initPyodide starts loading
WorkerConstructs(mem) ==
    /\ yport = NoPort
    /\ yport' = WorkerPort(ConstructorData(1, mem))
    /\ UNCHANGED <<ypyodide, yarchive, yout, ylog, yreqs,
                   pvars, svars, mvars, tvars, wvars, vvars, zvars>>

\* loadPyodide(...) resolves: this.pyodide is set, io and sys are imported,
\* and the callback suspends at `await fetch(...)`
PyodideLoaded ==
    /\ yport # NoPort
    /\ ypyodide = "null"
    /\ ypyodide' = "loaded"
    /\ yarchive' = "fetching"
    /\ ylog' = ylog \o InitPyodideCalls("fetching")
    /\ yout' = yout \o Posted(yport, InitPyodideCalls("fetching"))
    /\ UNCHANGED <<yport, yreqs, pvars, svars, mvars, tvars, wvars, vvars, zvars>>

\* the fetch and arrayBuffer settle: unpackArchive and readyCallback, or
\* (ok = FALSE) a rejection or a throwing unpackArchive ends the callback
ArchiveFetched(ok) ==
    /\ yarchive = "fetching"
    /\ yarchive' = IF ok THEN "unpacked" ELSE "failed"
    /\ ylog' = ylog \o InitPyodideCalls(yarchive')
    /\ yout' = yout \o Posted(yport, InitPyodideCalls(yarchive'))
    /\ UNCHANGED <<ypyodide, yport, yreqs, pvars, svars, mvars, tvars, wvars, vvars, zvars>>

\* onAnyMessage, cases 'runUserCode' and 'runButtonCommand': a request is
\* dispatched and its handler runs to its end
WorkerHandles(r, d) ==
    /\ yport # NoPort
    /\ Len(yreqs) < MaxPyRequests
    /\ LET n == Len(yreqs) + 1
           calls == IF r.id = "runUserCode" THEN RunUserCode(d, n, ypyodide, yport)
                    ELSE RunButtonCommand(r.selector, d, n, ypyodide)
       IN  /\ yreqs' = Append(yreqs, r)
           /\ ylog' = ylog \o calls
           /\ yout' = yout \o Posted(yport, calls)
    /\ UNCHANGED <<ypyodide, yarchive, yport, pvars, svars, mvars, tvars, wvars, vvars, zvars>>

YNext ==
    \/ \E mem \in 0..1 : WorkerConstructs(mem)
    \/ PyodideLoaded
    \/ \E ok \in BOOLEAN : ArchiveFetched(ok)
    \/ \E r \in PyRequests, d \in PyData : WorkerHandles(r, d)

InitPy == PInit /\ SInit /\ MIdle /\ TIdle /\ WIdle /\ VInit /\ YInit /\ ZIdle

SpecPy == InitPy /\ [][YNext]_vars

\* ====================================================================
\* The controller: WorkerAPI, its channel and the workers it spawns
\* (SpecCtl)
\* ====================================================================
\* clang.worker.js on 'constructor': the channel of the message is wired
ClangWorkerPort(data) == data.port

\* clang.worker.js on 'runUserCode': output is streamed as write events and
\* the completion event is emitted last
ClangRunUserCode(n) == <<WriteEvent(n), RunUserCodeCallbackEvent(n)>>

\* what the worker of a proglang assigns to its `port` on 'constructor'
WiredPort(lang, data) == IF lang = "py" THEN WorkerPort(data) ELSE ClangWorkerPort(data)

Terminate_Skipped(ws, w) == ws

\* WorkerAPI.terminate: this.worker.terminate()
Terminate(ws, w) == [ws EXCEPT ![w].state = "terminated"]

\* the workers whose script has not been terminated
Live(ws) == {w \in 1..MaxWorkers : ws[w].state \in {"spawned", "constructed", "loaded"}}

\* WorkerAPI.restart -> _createWorker: isReady is cleared, the existing
\* worker is terminated (terminate clears isRunningCode), a worker and a
\* channel are made, the shared memory is made when it is enabled, and the
\* 'constructor' message is posted
Restart(lang) ==
    /\ worker < MaxWorkers
    /\ isReady' = FALSE
    /\ isRunningCode' = FALSE
    /\ worker' = worker + 1
    /\ workers' = [Terminate(workers, worker) EXCEPT ![worker + 1] = NewWorker(lang)]
    /\ sharedMem' = IF sharedEnabled THEN NewSharedMem(sharedMem, worker + 1) ELSE sharedMem
    /\ UNCHANGED <<sharedEnabled, toCtl, toWorker, nruns, staleDone,
                   pvars, svars, mvars, tvars, wvars, vvars, yvars, fvars, ovars, nvars>>

\* the worker's onmessage, case 'constructor'
CtlWorkerConstructs(w) ==
    /\ workers[w].state = "spawned"
    /\ workers' = [workers EXCEPT
                      ![w].state = "constructed",
                      ![w].port = WiredPort(workers[w].lang,
                                            ConstructorData(w, IF w = worker THEN sharedMem ELSE 0))]
    /\ UNCHANGED <<isReady, isRunningCode, worker, sharedMem, sharedEnabled, toCtl, toWorker,
                   nruns, staleDone, pvars, svars, mvars, tvars, wvars, vvars, yvars, fvars, ovars, nvars>>

\* the worker's toolchain has loaded and it calls readyCallback
ToolchainLoaded(w) ==
    /\ workers[w].state = "constructed"
    /\ workers' = [workers EXCEPT ![w].state = "loaded",
                                  ![w].ready = IsMessagePort(workers[w].port)]
    /\ toCtl' = [toCtl EXCEPT ![w] = @ \o Posted(workers[w].port, <<ReadyEvent>>)]
    /\ UNCHANGED <<isReady, isRunningCode, worker, sharedMem, sharedEnabled, toWorker,
                   nruns, staleDone, pvars, svars, mvars, tvars, wvars, vvars, yvars, fvars, ovars, nvars>>

\* WorkerAPI.runUserCode(activeTabName, files)
CtlRunUserCode ==
    /\ nruns < MaxRuns
    /\ nruns' = nruns + 1
    /\ isRunningCode' = TRUE
    /\ toWorker' = [toWorker EXCEPT ![worker] = Append(@, [id |-> "runUserCode", req |-> nruns + 1])]
    /\ UNCHANGED <<isReady, worker, sharedMem, sharedEnabled, workers, toCtl, staleDone,
                   pvars, svars, mvars, tvars, wvars, vvars, yvars, fvars, ovars, nvars>>

\* the onmessage of the worker's port: a runUserCode request is handled and
\* its write and completion events are posted
CtlWorkerHandles(w, d) ==
    /\ workers[w].state \in {"constructed", "loaded"}
    /\ IsMessagePort(workers[w].port)
    /\ toWorker[w] # <<>>
    /\ LET n == Head(toWorker[w]).req
           pyodide == IF workers[w].state = "loaded" THEN "loaded" ELSE "null"
           calls == IF workers[w].lang = "py"
                    THEN RunUserCode(d, n, pyodide, workers[w].port)
                    ELSE ClangRunUserCode(n)
       IN  toCtl' = [toCtl EXCEPT ![w] = @ \o Posted(workers[w].port, calls)]
    /\ toWorker' = [toWorker EXCEPT ![w] = Tail(@)]
    /\ UNCHANGED <<isReady, isRunningCode, worker, sharedMem, sharedEnabled, workers,
                   nruns, staleDone, pvars, svars, mvars, tvars, wvars, vvars, yvars, fvars, ovars, nvars>>

\* WorkerAPI.onmessage, bound to port1 of every channel made so far: the
\* next message of channel ch is dispatched
ControllerReceives(ch) ==
    /\ toCtl[ch] # <<>>
    /\ LET e == Head(toCtl[ch])
       IN  /\ isReady' = IF e.id = "ready" THEN TRUE ELSE isReady
           /\ isRunningCode' = IF e.id = "runUserCodeCallback" THEN FALSE ELSE isRunningCode
           /\ staleDone' = (staleDone \/ (e.id = "runUserCodeCallback" /\ ch # worker
                                            /\ isRunningCode))
    /\ toCtl' = [toCtl EXCEPT ![ch] = Tail(@)]
    /\ UNCHANGED <<worker, sharedMem, sharedEnabled, workers, toWorker, nruns,
                   pvars, svars, mvars, tvars, wvars, vvars, yvars, fvars, ovars, nvars>>

CNext ==
    \/ \E lang \in Proglangs : Restart(lang)
    \/ \E w \in 1..MaxWorkers : CtlWorkerConstructs(w)
    \/ \E w \in 1..MaxWorkers : ToolchainLoaded(w)
    \/ CtlRunUserCode
    \/ \E w \in 1..MaxWorkers, d \in PyData : CtlWorkerHandles(w, d)
    \/ \E ch \in 1..MaxWorkers : ControllerReceives(ch)

InitCtl == PInit /\ SInit /\ MIdle /\ TIdle /\ WIdle /\ VInit /\ YInit /\ CInit /\ FIdle /\ OInit /\ NIdle

SpecCtl == InitCtl /\ [][CNext]_vars

\* the event loops keep running: a worker that is not terminated handles
\* its 'constructor' message, and the controller dispatches queued messages
SpecCtlFair ==
    /\ SpecCtl
    /\ WF_vars(\E w \in 1..MaxWorkers : CtlWorkerConstructs(w))
    /\ WF_vars(\E ch \in 1..MaxWorkers : ControllerReceives(ch))

\* ====================================================================
\* API.formatErrorMsg applied to traceback messages (SpecFmt)
\* ====================================================================
ExecToken == "<exec>"

\* the filename of the active tab
ActiveTabName == "a.py"

\* the lines of a Pyodide traceback: the first line, w lines of the
\* wrapper's frames, f frames of the user's code (a line naming <exec>,
\* with the source line when code = TRUE), and the exception line, whose
\* message names <exec> k times
HeadLine == <<"Traceback (most recent call last):">>
WrapperLine == <<"  _pyodide/_base.py">>
FrameLine == <<"  File \"", ExecToken, "\", line 1, in <module>">>
CodeLine == <<"    print(x)">>
ExceptionLine(k) == <<"NameError: ">> \o [i \in 1..k |-> ExecToken]

RECURSIVE Repeat(_, _)
Repeat(lines, n) == IF n = 0 THEN <<>> ELSE lines \o Repeat(lines, n - 1)

UserFrames(f, code) == Repeat(<<FrameLine>> \o (IF code THEN <<CodeLine>> ELSE <<>>), f)

Traceback(w, f, code, k) ==
    <<HeadLine>> \o Repeat(<<WrapperLine>>, w) \o UserFrames(f, code) \o <<ExceptionLine(k)>>

Tracebacks ==
    {Traceback(w, f, code, k) : w \in 0..MaxWrapperLines, f \in 1..MaxFrames,
                                code \in BOOLEAN, k \in 0..MaxExecTokens}

\* line.replace('<exec>', activeTabName): a string pattern replaces the
\* first occurrence only
ReplaceFirst(line, tok, by) ==
    IF \E i \in 1..Len(line) : line[i] = tok
    THEN LET first == CHOOSE i \in 1..Len(line) :
                          line[i] = tok /\ \A j \in 1..(i - 1) : line[j] # tok
         IN  [line EXCEPT ![first] = by]
    ELSE line

\* msg.slice(7)
Slice7(msg) == SubSeq(msg, 8, Len(msg))

\* API.formatErrorMsg(msg, activeTabName), on the lines of msg.split('\n');
\* the result is the lines that are joined with '\n'
FormatErrorMsg(msg, activeTabName) ==
    LET kept == <<msg[1]>> \o Slice7(msg)
    IN  [i \in 1..Len(kept) |-> ReplaceFirst(kept[i], ExecToken, activeTabName)]

FInit ==
    /\ fmsg \in Tracebacks
    /\ fres = <<>>

\* API.run's catch block: return this.formatErrorMsg(err.message, activeTabName)
CallFormatErrorMsg ==
    /\ fres = <<>>
    /\ fres' = FormatErrorMsg(fmsg, ActiveTabName)
    /\ UNCHANGED <<fmsg, pvars, svars, mvars, tvars, wvars, vvars, yvars, cvars, ovars, nvars>>

FNext == CallFormatErrorMsg

InitFmt == PInit /\ SInit /\ MIdle /\ TIdle /\ WIdle /\ VInit /\ YInit /\ CIdle /\ FInit /\ OInit /\ NIdle

SpecFmt == InitFmt /\ [][FNext]_vars

\* ====================================================================
\* Overlapping API.run invocations on one MemFS (SpecOverlap)
\* ====================================================================
\* the App whose _start is on the stack (0: none); guest execution is
\* synchronous, so at most one
Executing == IF \E a \in 1..MaxApps : oapps[a] = "executing"
             THEN CHOOSE a \in 1..MaxApps : oapps[a] = "executing"
             ELSE 0

ReadyThen_Skipped(a, hm) == hm

\* the then-callback of App's this.ready: this.memfs.hostMem = this.mem
ReadyThen(a, hm) == a

\* API.run(cmd): new App(...), whose constructor starts the instantiation,
\* and app.run(), which suspends at `await this.ready`; called from any
\* invocation of compile, link or compileLinkRun while no guest executes
APIRunCall(a) ==
    /\ Executing = 0
    /\ oapps[a] = "none"
    /\ \A b \in 1..(a - 1) : oapps[b] # "none"
    /\ oapps' = [oapps EXCEPT ![a] = "constructed"]
    /\ UNCHANGED <<omicro, ohostMem, pvars, svars, mvars, tvars, wvars, vvars, yvars, cvars, fvars, nvars>>

\* the engine's task for one WebAssembly.instantiate call: its promise
\* settles; a task starts only when the stack and the microtask queue are
\* empty
InstantiateSettles(a, ok) ==
    /\ Executing = 0
    /\ omicro = <<>>
    /\ oapps[a] = "constructed"
    /\ IF ok
       THEN /\ omicro' = Append(omicro, [job |-> "then", app |-> a])
            /\ UNCHANGED oapps
       ELSE /\ oapps' = [oapps EXCEPT ![a] = "failed"]
            /\ UNCHANGED omicro
    /\ UNCHANGED <<ohostMem, pvars, svars, mvars, tvars, wvars, vvars, yvars, cvars, fvars, nvars>>

\* the next microtask runs: the then-callback of this.ready, which resolves
\* this.ready and so queues the continuation of run(); or that
\* continuation, which enters _start
RunMicrotask ==
    /\ Executing = 0
    /\ omicro # <<>>
    /\ LET m == Head(omicro)
       IN  IF m.job = "then"
           THEN /\ ohostMem' = ReadyThen(m.app, ohostMem)
                /\ oapps' = [oapps EXCEPT ![m.app] = "ready"]
                /\ omicro' = Append(Tail(omicro), [job |-> "run", app |-> m.app])
           ELSE /\ oapps' = [oapps EXCEPT ![m.app] = "executing"]
                /\ omicro' = Tail(omicro)
                /\ UNCHANGED ohostMem
    /\ UNCHANGED <<pvars, svars, mvars, tvars, wvars, vvars, yvars, cvars, fvars, nvars>>

\* _start returns or throws
GuestLeaves(a) ==
    /\ oapps[a] = "executing"
    /\ oapps' = [oapps EXCEPT ![a] = "ended"]
    /\ UNCHANGED <<omicro, ohostMem, pvars, svars, mvars, tvars, wvars, vvars, yvars, cvars, fvars, nvars>>

ONext ==
    \/ \E a \in 1..MaxApps : APIRunCall(a)
    \/ \E a \in 1..MaxApps, ok \in BOOLEAN : InstantiateSettles(a, ok)
    \/ RunMicrotask
    \/ \E a \in 1..MaxApps : GuestLeaves(a)

InitOverlap == PInit /\ SInit /\ MIdle /\ TIdle /\ WIdle /\ VInit /\ YInit /\ CIdle /\ FIdle /\ OInit /\ NIdle

SpecOverlap == InitOverlap /\ [][ONext]_vars

Init == PInit /\ SInit /\ MIdle /\ XIdle

Next == PNext

Spec == Init /\ [][Next]_vars

\* ====================================================================
\* Claims about the pipeline and the guest life cycle (Spec)
\* ====================================================================
Idx(e) == {i \in 1..Len(trace) : trace[i] = e}
Entries == {trace[i] : i \in 1..Len(trace)}
Writes == SelectSeq(trace, LAMBDA e : e.k = "write")

\* C1: compile, link and run happen in this order; link is called only after
\* compile returned, run only after link returned; once compile or link has
\* thrown, no stage is called or entered any more, neither the "done." line
\* nor the "$ ./<name>" line is written, and no stage is called twice.
C1_StagesInOrder ==
    /\ \A i \in Idx(Ev("link", "call")) :
          /\ \E j \in 1..(i - 1) : trace[j] = Ev("compile", "return")
          /\ Ev("compile", "throw") \notin Entries
    /\ \A i \in Idx(Ev("run", "call")) :
          /\ \E j \in 1..(i - 1) : trace[j] = Ev("link", "return")
          /\ Ev("link", "throw") \notin Entries
    /\ \A st \in {"compile", "link"} : \A i \in Idx(Ev(st, "throw")) :
          /\ \A j \in (i + 1)..Len(trace) :
                trace[j].k = "ev" => trace[j].text[2] \notin {"call", "_start"}
          /\ DoneLine \notin Entries
          /\ RunLine(fname) \notin Entries
          /\ result = "throw"
    /\ \A st \in Stages :
          /\ Cardinality(Idx(Ev(st, "call"))) <= 1
          /\ Cardinality(Idx(Ev(st, "_start"))) <= 1

\* compile succeeded, link failed, and the request has settled
C1_Witness ==
    /\ Ev("compile", "return") \in Entries
    /\ Ev("link", "throw") \in Entries
    /\ pc = <<"none", "settled">>

\* the instance ended in a trap or in a ProcExit that is neither 0 nor the
\* sentinel
FailingEnd(e) ==
    /\ e.k = "ev"
    /\ e.text[2] = "guest.threw"
    /\ ~(e.exn.type = "ProcExit" /\ e.exn.code \in {0, RAF_PROC_EXIT_CODE})

\* C2: an instance that ends in a trap or a disallowed ProcExit is followed
\* by exactly one diagnostic write, made before the failure reaches the
\* caller; the diagnostic holds the exception's message, and the stack
\* exactly when the exception is not a ProcExit.
C2_OneDiagnosticBeforeThrow ==
    /\ \A i \in 1..Len(trace) : FailingEnd(trace[i]) =>
          /\ i + 2 <= Len(trace)
          /\ IsDiag(trace[i + 1])
          /\ SubSeq(trace[i + 1].text, 2, 1 + Len(trace[i].exn.message))
                = trace[i].exn.message
          /\ DiagHasStack(trace[i + 1]) <=> (trace[i].exn.type # "ProcExit")
          /\ trace[i + 2] = Ev(trace[i].text[1], "throw")
    /\ Cardinality({i \in 1..Len(trace) : IsDiag(trace[i])})
          = Cardinality({i \in 1..Len(trace) : FailingEnd(trace[i])})

\* the run-stage instance exited with code 1 after writing output
C2_Witness ==
    /\ app.stage = "run"
    /\ sys = ProcExitCall(1)
    /\ app.ret = "throw"
    /\ GuestText(1) \in Entries

\* C3: after proc_exit(0xC0C0A) App.run returned true, API.run returned the
\* app, allowRequestAnimationFrame is still true and no diagnostic was
\* written and nothing was thrown; after proc_exit with any other nonzero
\* code allowRequestAnimationFrame is false and API.run did not return the app.
C3_SentinelOnlySchedulable ==
    (sys.name = "proc_exit" /\ app.ret # "none") =>
        IF sys.exn.code = RAF_PROC_EXIT_CODE
        THEN /\ app.ret = "true"
             /\ app.apiRun = "app"
             /\ app.allowRequestAnimationFrame
             /\ \A e \in Entries : ~IsDiag(e)
             /\ Ev(app.stage, "throw") \notin Entries
             /\ app.stage = "run" => result = "app"
        ELSE sys.exn.code # 0 =>
             /\ ~app.allowRequestAnimationFrame
             /\ app.apiRun # "app"
             /\ app.stage = "run" => result # "app"

\* the run-stage instance exited with the sentinel
C3_Witness ==
    /\ app.stage = "run"
    /\ sys = ProcExitCall(RAF_PROC_EXIT_CODE)
    /\ result = "app"

\* every stage's instance ran without writing, compile and link returned,
\* and the run-stage instance exited with code 0
TrivialCleanRun ==
    /\ pc = <<"none", "settled">>
    /\ \A k \in 1..MaxGuestWrites : GuestText(k) \notin Entries
    /\ Ev("compile", "return") \in Entries
    /\ Ev("link", "return") \in Entries
    /\ \/ GuestEndEv("run", Threw(ProcExit(0))) \in Entries
       \/ GuestEndEv("run", Returned) \in Entries

\* C4 as stated: a clean run of a trivial program settles without exception
\* and diagnostic and leaves the accumulated output empty.
C4_Original_EmptyOutput ==
    TrivialCleanRun =>
        /\ result # "throw"
        /\ \A e \in Entries : ~IsDiag(e)
        /\ Writes = <<>>

\* C4 amended: a clean run of a trivial program settles with null, without
\* exception and diagnostic, and the output sink has received exactly the
\* four host lines "$ Compiling <name>...", "done.\n", "$ ./<name>\n", "\n".
C4_CleanRunHostLinesOnly ==
    TrivialCleanRun =>
        /\ result = "null"
        /\ \A e \in Entries : ~IsDiag(e)
        /\ Writes = <<HostLog(<<"Compiling ", fname, "...">>), DoneLine,
                      RunLine(fname), NewLine>>

C4_Witness ==
    /\ TrivialCleanRun
    /\ GuestEndEv("run", Threw(ProcExit(0))) \in Entries
    /\ result = "null"

\* C5: clock_time_get and poll_oneoff return nothing, write no guest memory
\* and throw NotImplemented; the instance ends with that exception, App.run
\* rethrows it after writing a diagnostic with the stack.
C5_UnimplementedFailLoudly ==
    sys.name \in {"clock_time_get", "poll_oneoff"} =>
        /\ sys.threw
        /\ sys.ret = "none"
        /\ sys.memw = {}
        /\ sys.exn = NotImplemented("wasi_unstable", sys.name)
        /\ app.ret = "throw"
        /\ \E i \in 1..(Len(trace) - 1) :
              /\ trace[i] = GuestEndEv(app.stage, Threw(sys.exn))
              /\ trace[i + 1] = Diagnostic(sys.exn, TRUE)

C5_Witness ==
    /\ sys.name = "clock_time_get"
    /\ app.stage = "compile"
    /\ app.ret = "throw"

RECURSIVE TotalLen(_)
TotalLen(iovs) == IF iovs = <<>> THEN 0 ELSE Head(iovs)[2] + TotalLen(Tail(iovs))

\* the bytes of the buffers of iovs, buffer after buffer
RECURSIVE BufferBytes(_, _)
BufferBytes(mem, iovs) ==
    IF iovs = <<>> THEN <<>>
    ELSE [j \in 1..Head(iovs)[2] |-> mem[Head(iovs)[1] + j - 1]]
            \o BufferBytes(mem, Tail(iovs))

\* mem after `bytes` were placed into the buffers of iovs in order, each
\* buffer filled before the next is used
RECURSIVE PlacedInOrder(_, _, _)
PlacedInOrder(mem, iovs, bytes) ==
    IF iovs = <<>> \/ bytes = <<>> THEN mem
    ELSE LET k == Min(Head(iovs)[2], Len(bytes))
         IN  PlacedInOrder(MemWrite(mem, Head(iovs)[1], SubSeq(bytes, 1, k)),
                           Tail(iovs), SubSeq(bytes, k + 1, Len(bytes)))

\* C9 as stated: with a payload of n bytes and iovecs of total capacity c,
\* host_read puts the first min(n, c) payload bytes into the buffers in order
\* and stores min(n, c) as the count; the read is short exactly when n < c.
C9_Original_ScatterMin ==
    (sres.op = "host_read" /\ ~sres.threw) =>
        LET n == Len(sin)
            c == TotalLen(siovs)
            m == Min(n, c)
        IN  /\ sres.stored
            /\ sres.count = m
            /\ sres.mem = PlacedInOrder(ZeroMem, siovs, SubSeq(sin, 1, m))
            /\ (sres.count < c) <=> (n < c)

\* C10 as stated: host_write calls the sink exactly once, with the
\* concatenation in order of all iovec buffers, and the count it stores is
\* the total length of the buffers and the length of the forwarded payload.
C10_Original_WriteConcat ==
    (sres.op = "host_write" /\ ~sres.threw) =>
        /\ Len(sres.sink) = 1
        /\ sres.sink[1] = BufferBytes(gmem, siovs)
        /\ sres.stored
        /\ sres.count = TotalLen(siovs)
        /\ sres.count = Len(sres.sink[1])

\* C11 as stated: host_write called with an fd other than 0, 1, 2 fails
\* with an assertion error, forwards nothing to the sink and writes nothing
\* to guest memory.
C11_Original_BadFdRejected ==
    (sres.op = "host_write" /\ sfd \notin {0, 1, 2}) =>
        /\ sres.threw
        /\ sres.sink = <<>>
        /\ ~sres.stored

\* ====================================================================
\* Claims about the archive loader (SpecTar)
\* ====================================================================
\* the entries written before the first header without the magic
RECURSIVE BeforeBadMagic(_)
BeforeBadMagic(entries) ==
    IF entries = <<>> \/ ~Head(entries).magic THEN <<>>
    ELSE <<Head(entries)>> \o BeforeBadMagic(Tail(entries))

KnownTypes(entries) ==
    \A i \in 1..Len(entries) : entries[i].type \in {TypeFile, TypeDir}

\* the registration an archived file or directory stands for
RegOf(e) ==
    [kind |-> IF e.type = TypeFile THEN "file" ELSE "directory",
     path |-> <<e.name>>, contents |-> e.contents]

\* C13: untar stops at the first header whose magic does not match: what it
\* registered are entries written before that header, in archive order, all
\* of them when their type flags are known; nothing at or after the header.
C13_StopsAtBadMagic ==
    tdone # "idle" =>
        LET pre == BeforeBadMagic(tsrc)
        IN  /\ Len(tfs) <= Len(pre)
            /\ \A i \in 1..Len(tfs) : tfs[i] = RegOf(pre[i])
            /\ KnownTypes(pre) => (tdone = "returned" /\ Len(tfs) = Len(pre))

\* an entry, then a header without the magic, then the end of the archive
C13_Witness ==
    /\ tdone = "returned"
    /\ Len(tsrc) = 2
    /\ tsrc[1].magic /\ ~tsrc[2].magic
    /\ tfs = <<RegOf(tsrc[1])>>

\* C14 as stated: when an entry has an unknown type flag the load fails and
\* the filesystem holds none of the archive's entries.
C14_Original_NothingApplied ==
    (tdone # "idle" /\ ~KnownTypes(BeforeBadMagic(tsrc))) =>
        /\ tdone = "threw"
        /\ tfs = <<>>

\* C15: after loading a well-formed archive every entry is registered, in
\* order, a file under its name with exactly its size bytes (no padding), a
\* directory as a directory.
C15_WellFormedMaterialized ==
    (tdone # "idle" /\ BeforeBadMagic(tsrc) = tsrc /\ KnownTypes(tsrc)) =>
        /\ tdone = "returned"
        /\ Len(tfs) = Len(tsrc)
        /\ \A i \in 1..Len(tsrc) :
              /\ tfs[i].path = <<tsrc[i].name>>
              /\ tsrc[i].type = TypeDir => tfs[i].kind = "directory"
              /\ tsrc[i].type = TypeFile =>
                    /\ tfs[i].kind = "file"
                    /\ Len(tfs[i].contents) = Len(tsrc[i].contents)
                    /\ tfs[i].contents = tsrc[i].contents

\* a directory and a one-byte file (padded in the archive) were loaded
C15_Witness ==
    /\ tdone = "returned"
    /\ Len(tsrc) = 2 /\ Len(tfs) = 2
    /\ tsrc[1].type = TypeDir /\ tsrc[1].magic
    /\ tsrc[2].type = TypeFile /\ tsrc[2].magic /\ Len(tsrc[2].contents) = 1
    /\ tfs[2].kind = "file"

\* ====================================================================
\* Claims about Memory.writeStr (SpecStr)
\* ====================================================================
\* C17 as stated: writeStr(o, s), for s without a NUL character and with
\* room for s and its terminator, puts the characters of s at o, a 0 byte
\* after them, changes no other byte and returns length(s)+1; readStr(o)
\* then yields s.
C17_Original_WriteStrRoundTrip ==
    (wres.op = "writeStr" /\ wo + Len(wstr) + 1 <= StrMemSize) =>
        /\ ~wres.threw
        /\ wres.ret = Len(wstr) + 1
        /\ wres.mem[wo + Len(wstr)] = 0
        /\ \A a \in 0..(StrMemSize - 1) :
              (a < wo \/ a > wo + Len(wstr)) => wres.mem[a] = wmem[a]
        /\ wres.rd = wstr

\* ====================================================================
\* Claims about Memory views (SpecView)
\* ====================================================================
\* C18 as stated: no operation reads or writes a linear memory through a
\* view that was bound before the memory's backing store last grew.
C18_Original_NoStaleAccess == ~vlast.stale

\* ====================================================================
\* Claims about failure reporting and streaming in the pipeline (Spec)
\* ====================================================================
\* C23 as stated: a compileLinkRun request that failed has written at
\* least one diagnostic describing the failure before it rejected.
C23_Original_NoSilentFailure ==
    result = "throw" => \E i \in 1..Len(trace) : IsDiag(trace[i])

\* C26: whenever compile or link has gone past `await this.ready` without
\* failing (it is fetching its module, instantiating or running its
\* guest), the filesystem engine is ready and the sysroot archive has been
\* loaded completely.
C26_NoGuestBeforeSysroot ==
    (pc[1] \in {"compile", "link"} /\ pc[2] \in {"fetch", "inst", "guest"}) => apiReady = "ok"

\* the compiler's guest of the first request is executing and has written
\* output, after API.ready resolved
C26_Witness ==
    /\ pc = <<"compile", "guest">>
    /\ apiReady = "ok"
    /\ nreq = 1
    /\ gw = 1

\* the entries of the trace that follow the _start of the running instance
SinceStart ==
    LET starts == {i \in 1..Len(trace) : trace[i] = Ev(pc[1], "_start")}
        last == CHOOSE i \in starts : \A j \in starts : j <= i
    IN  SubSeq(trace, last + 1, Len(trace))

IsGuestWrite(e) == e.k = "write" /\ e.text = <<"guest output">>

\* C25: while a guest instance is executing, the sink holds the text of
\* every host_write call the instance has made so far, in the order of the
\* calls: none is held back until the guest terminates.
C25_StreamedInOrder ==
    pc[2] = "guest" =>
        SelectSeq(SinceStart, IsGuestWrite) = [k \in 1..gw |-> GuestText(k)]

\* the run-stage instance is still executing and its two writes have
\* reached the sink, after the run line
C25_Witness ==
    /\ pc = <<"run", "guest">>
    /\ gw = 2
    /\ trace[Len(trace)] = GuestText(2)
    /\ trace[Len(trace) - 1] = GuestText(1)
    /\ RunLine(fname) \in {trace[i] : i \in 1..Len(trace)}

\* ====================================================================
\* Claims about the Python worker (SpecPy)
\* ====================================================================
\* positions in yout of the messages of kind id that request n posted
EventsOf(id, n) == {i \in 1..Len(yout) : yout[i].id = id /\ yout[i].req = n}

ReadyIn(log) == {i \in 1..Len(log) : log[i].id = "ready"}

\* C22: the worker calls readyCallback, and so emits ready, only when the
\* interpreter is initialised and the custom library archive is unpacked,
\* and at most once.
C22_ReadyOnlyAfterLoadedOnce ==
    /\ Cardinality(ReadyIn(ylog)) <= 1
    /\ Cardinality(ReadyIn(yout)) <= Cardinality(ReadyIn(ylog))
    /\ ReadyIn(ylog) # {} => ypyodide = "loaded" /\ yarchive = "unpacked"

\* readyCallback has been called, and requests were handled before it: two
\* while the archive was being fetched
C22_Witness ==
    /\ ReadyIn(ylog) # {}
    /\ Len(yreqs) = 2
    /\ ylog[Len(ylog)].id = "ready"

\* ====================================================================
\* Claims about the controller and its workers (SpecCtl, SpecCtlFair)
\* ====================================================================
\* C21 as stated: once the toolchain of the live worker has loaded, the
\* controller eventually receives its ready message and sets isReady to
\* true (unless it replaces the worker first).
C21_Original_ReadyDelivered ==
    \A w \in 1..MaxWorkers :
        [](workers[w].state = "loaded" /\ worker = w => <>(isReady \/ worker # w))

\* C24: at most one worker is live at any time; a restart terminates the
\* existing worker, leaves isReady and isRunningCode false, and the new
\* worker starts unwired with empty queues on a new channel and, where
\* shared memory is enabled, with a newly created shared memory.
C24_RestartFresh ==
    /\ [](Cardinality(Live(workers)) <= 1)
    /\ [][worker' # worker =>
            /\ ~isReady' /\ ~isRunningCode'
            /\ workers'[worker].state = "terminated"
            /\ Live(workers') = {worker'}
            /\ workers'[worker'].state = "spawned"
            /\ workers'[worker'].port = NoPort
            /\ toCtl'[worker'] = <<>> /\ toWorker'[worker'] = <<>>
            /\ sharedEnabled => (sharedMem' # sharedMem /\ sharedMem' = worker')]_vars

\* a worker that had been sent a request was replaced: it is terminated,
\* the flags are cleared and the shared memory is new
C24_Witness ==
    /\ worker = 2
    /\ workers[1].state = "terminated"
    /\ workers[2].state = "spawned"
    /\ toWorker[1] # <<>>
    /\ ~isReady /\ ~isRunningCode
    /\ sharedMem = 2

\* C29 as stated: isReady is true only if the live worker has emitted
\* ready, and no completion event of a terminated worker has cleared
\* isRunningCode.
C29_Original_NoStaleMessage ==
    /\ isReady => workers[worker].ready
    /\ ~staleDone

\* ====================================================================
\* Claims about the stdin mailbox (SpecStdin)
\* ====================================================================
IsPrefix(a, b) == Len(a) <= Len(b) /\ a = SubSeq(b, 1, Len(a))

\* host_read calls made so far
ReadCalls == returned + (IF wpc = "guest" THEN 0 ELSE 1)

\* C6 as stated: every host_read call posts one readStdin request, and the
\* k-th host_read returns only after the controller has written and
\* signalled k times: no read returns on a signal it did not receive.
C6_Original_ReadWaitsForSignal ==
    /\ issued = ReadCalls
    /\ returned <= notified

\* C7 as stated: at most one readStdin request is posted and not yet
\* answered by the controller's write-and-notify.
C7_Original_OneOutstanding == issued - notified <= 1

\* C8 as stated: when host_read returns the whole shared region is 0, and
\* the bytes it delivered are bytes of the value written for that request.
C8_Original_ClearedNoStale ==
    returned > 0 =>
        /\ lastRead.shmZero
        /\ lastRead.k <= Len(vals)
        /\ IsPrefix(lastRead.bytes, vals[lastRead.k])

\* C30 as stated: whenever host_read is draining the mailbox, the
\* controller has written the whole payload of that read and its
\* terminator.
C30_Original_NoPartialPayload ==
    wpc = "drain" => (Len(vals) >= issued /\ cwpc \notin {"bytes", "term"})

\* ====================================================================
\* Claims about API.formatErrorMsg (SpecFmt)
\* ====================================================================
\* the first line of msg that names <exec>
FirstExec(msg) ==
    CHOOSE i \in 1..Len(msg) :
        /\ \E j \in 1..Len(msg[i]) : msg[i][j] = ExecToken
        /\ \A h \in 1..(i - 1) : \A j \in 1..Len(msg[h]) : msg[h][j] # ExecToken

\* every <exec> of a line replaced
ReplaceAll(line, tok, by) == [j \in 1..Len(line) |-> IF line[j] = tok THEN by ELSE line[j]]

\* C28 as stated: the result is the first line followed by the lines from
\* the user's frame (the first line naming <exec>) through the exception
\* line, with <exec> replaced by the active tab's filename; the exception
\* line is kept and no returned line contains <exec>.
C28_Original_FrameThroughFinal ==
    fres # <<>> =>
        LET kept == <<fmsg[1]>> \o SubSeq(fmsg, FirstExec(fmsg), Len(fmsg))
        IN  /\ fres = [i \in 1..Len(kept) |-> ReplaceAll(kept[i], ExecToken, ActiveTabName)]
            /\ fres[Len(fres)] = ReplaceAll(fmsg[Len(fmsg)], ExecToken, ActiveTabName)
            /\ \A i \in 1..Len(fres) : \A j \in 1..Len(fres[i]) : fres[i][j] # ExecToken

\* ====================================================================
\* Claims about overlapping runs (SpecOverlap)
\* ====================================================================
\* C27: whenever a guest instance is executing (its _start is on the
\* stack), MemFS.hostMem_ is the Memory of that instance, whatever the
\* interleaving of the overlapping API.run invocations.
C27_HostMemIsExecuting ==
    \A a \in 1..MaxApps : oapps[a] = "executing" => ohostMem = a

\* an App constructed first executes after a later one has bound and left,
\* while a third is constructed and waits for its instance
C27_Witness ==
    /\ oapps[1] = "executing"
    /\ oapps[2] = "ended"
    /\ oapps[3] = "constructed"
    /\ ohostMem = 1

\* ====================================================================
\* Further claims about the stdin mailbox (SpecStdin)
\* ====================================================================
\* C32 as stated: input that did not fit the iovecs of a read is kept for
\* the guest's next reads: while a part of stdinStr is unread, stdinStr is
\* not replaced and the read position does not move back.
C32_Original_LeftoverKept ==
    [][stdinStrPos < Len(stdinStr) =>
          (stdinStr' = stdinStr /\ stdinStrPos' >= stdinStrPos)]_vars

\* C34 as stated: the drain loop of host_read ends for every payload: it
\* finds a 0 inside the shared region, so its index never reaches the end
\* of the region (from where no read returns 0).
C34_Original_DrainEnds ==
    wpc = "drain" => di < ShmSize

\* ====================================================================
\* Claims about Tar.readEntry on arbitrary buffers (SpecRead)
\* ====================================================================
\* C33 as stated: every readEntry call starts with the offset on a block
\* boundary, and a call that returns an entry leaves the offset at least
\* one block further than it found it, whatever the size field holds.
C33_Original_ReadEntryAdvances ==
    [][(esteps' = esteps + 1 /\ eres' = "entry") =>
          (eoff % Block = 0 /\ eoff' >= eoff + Block)]_vars

\* ====================================================================
\* Claims about overlapping getModule calls (SpecCache)
\* ====================================================================
\* C31 as stated: compileStreaming is invoked at most once for each module
\* name, also when getModule calls for the same name overlap.
C31_Original_CompiledOnce ==
    \A name \in ModuleNames : gcompiles[name] <= 1

\* ====================================================================
\* Claims about createWorkerApi (SpecApi)
\* ====================================================================
\* C35: after any sequence of createWorkerApi calls that starts with no
\* worker, window._workerApi is set exactly when the latest requested
\* proglang has a worker, and its proglang is then that request; a call with
\* the proglang of the current worker changes nothing; a call that switches
\* to another proglang with a worker terminates one worker and spawns one,
\* the worker of the new proglang.
C35_WorkerApiFollowsRequests ==
    /\ [](kcalls > 0 =>
            /\ (kapi # NoApi) <=> (klast \in {"c", "py"})
            /\ kapi # NoApi => kapi.proglang = klast)
    /\ [][kcalls' = kcalls + 1 /\ kapi # NoApi =>
            /\ klast' = kapi.proglang =>
                  (kapi' = kapi /\ kspawned' = kspawned /\ kterminated' = kterminated)
            /\ (klast' # kapi.proglang /\ klast' \in {"c", "py"}) =>
                  /\ kspawned' = kspawned + 1
                  /\ kterminated' = kterminated + 1
                  /\ kapi'.worker = (IF klast' = "c" THEN "clang" ELSE klast')]_vars

\* the existing c worker was restarted as a py worker by the latest call
C35_Witness ==
    /\ kapi # NoApi
    /\ kapi.proglang = "py"
    /\ kapi.prevProglang = "c"
    /\ kspawned >= 2
    /\ kterminated >= 1
    /\ klast = "py"

====
